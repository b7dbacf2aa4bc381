------------------------------ MODULE Xd_proofs ------------------------------
(***************************************************************************)
(* The debugger for every program, every number of breakpoints and every   *)
(* session: its list of breakpoints, and that the machine under it runs    *)
(* the program as execute_program would.                                   *)
(***************************************************************************)
EXTENDS Xd, OrtaVM_proofs

ListTypeOK == /\ breakpoints \in [Slots -> Addresses \cup {0}]
              /\ bpCount \in 0 .. MaxBreakpoints
              /\ session \in {"prompt", "continuing", "ended"}
              /\ wanted \in Seq(Addresses)
              /\ haltSeen \in BOOLEAN

\* A session that has executed a `halt` stands before it: only the same
\* `halt` is ever executed again, and its exit code is the machine's already.
AtHalt == haltSeen => /\ ip < Len(code) /\ Instr.op = "halt"
                      /\ status = "running"
                      /\ Len(Args) = 1 => exitCode = Atoi(Args[1])

ListOK == ListTypeOK /\ ListIsWhatWasTyped
XdIInv == IInv /\ ListOK /\ AtHalt

----------------------------------------------------------------------------
(* What a break and a delete do to the list.                               *)

\* The first n entries of an array are a sequence.
LEMMA FirstEntries ==
  ASSUME NEW S, NEW b \in [Slots -> S], NEW n \in 0 .. MaxBreakpoints
  PROVE  /\ [k \in 1 .. n |-> b[k - 1]] \in Seq(S)
         /\ Len([k \in 1 .. n |-> b[k - 1]]) = n
         /\ n \in Nat
  <1> DEFINE list == [k \in 1 .. n |-> b[k - 1]]
  <1>1. n \in Nat /\ \A k \in 1 .. n : k - 1 \in Slots
    BY BreakpointAssumption DEF Slots
  <1>2. list \in [1 .. n -> S]
    BY <1>1
  <1>3. list \in Seq(S)
    BY <1>1, <1>2, SeqDef
  <1>4. DOMAIN list = 1 .. n /\ DOMAIN list = 1 .. Len(list) /\ Len(list) \in Nat
    BY <1>2, <1>3, LenProperties
  <1> QED
    BY <1>1, <1>3, <1>4

\* A break adds its address at the end.
LEMMA AddAppends ==
  ASSUME ListTypeOK, NEW a \in Addresses, AddBreakpoint(a), ListTypeOK'
  PROVE  Listed' = Append(Listed, a)
  <1> DEFINE n == bpCount
             S == Addresses \cup {0}
  <1>1. /\ Listed \in Seq(S) /\ Len(Listed) = n /\ n \in Nat /\ n < MaxBreakpoints
        /\ MaxBreakpoints \in Nat
    <2>1. breakpoints \in [Slots -> S] /\ n \in 0 .. MaxBreakpoints /\ n < MaxBreakpoints
      BY DEF AddBreakpoint, ListTypeOK
    <2>2. Listed = [k \in 1 .. n |-> breakpoints[k - 1]]
      BY DEF Listed
    <2> HIDE DEF n, S
    <2> QED
      BY <2>1, <2>2, FirstEntries, BreakpointAssumption
  <1>2. Listed' \in Seq(S) /\ Len(Listed') = n + 1
    <2>1. /\ breakpoints' \in [Slots -> S] /\ bpCount' \in 0 .. MaxBreakpoints
          /\ bpCount' = n + 1
      BY DEF AddBreakpoint, ListTypeOK
    <2>2. Listed' = [k \in 1 .. bpCount' |-> breakpoints'[k - 1]]
      BY DEF Listed
    <2> QED
      BY <2>1, <2>2, FirstEntries
  <1>3. /\ Append(Listed, a) \in Seq(S) /\ Len(Append(Listed, a)) = n + 1
        /\ \A i \in 1 .. n : Append(Listed, a)[i] = Listed[i]
        /\ Append(Listed, a)[n + 1] = a
    BY <1>1, AppendProperties
  <1>4. ASSUME NEW i \in 1 .. (n + 1) PROVE Listed'[i] = Append(Listed, a)[i]
    <2>1. i - 1 \in Slots /\ (i - 1 = n <=> i = n + 1)
      BY <1>1 DEF Slots
    <2>2. Listed'[i] = IF i = n + 1 THEN a ELSE breakpoints[i - 1]
      BY <2>1 DEF Listed, AddBreakpoint, ListTypeOK
    <2>3. i # n + 1 => i \in 1 .. n /\ Listed[i] = breakpoints[i - 1]
      BY <1>1 DEF Listed
    <2> QED
      BY <1>3, <2>2, <2>3
  <1> QED
    BY <1>2, <1>3, <1>4, SeqEqual

\* What memmove leaves of the list: all entries but one, in their order.
LEMMA MovedDownIsWithout ==
  ASSUME ListTypeOK, NEW index \in Int, 0 <= index, index < bpCount
  PROVE  [k \in 1 .. (bpCount - 1) |-> MovedDown(index)[k - 1]] = Without(Listed, index + 1)
  <1> DEFINE n == bpCount
             S == Addresses \cup {0}
             moved == [k \in 1 .. (n - 1) |-> MovedDown(index)[k - 1]]
             front == SubSeq(Listed, 1, index)
             back == SubSeq(Listed, index + 2, n)
  <1>1. n \in Nat /\ n <= MaxBreakpoints /\ MaxBreakpoints \in Nat /\ n - 1 \in Nat
    BY BreakpointAssumption DEF ListTypeOK
  <1>2. \A k \in 1 .. n : k - 1 \in Slots
    BY <1>1 DEF Slots
  <1>3. Listed \in [1 .. n -> S]
    BY <1>2 DEF Listed, ListTypeOK
  <1>4. Listed \in Seq(S) /\ Len(Listed) = n
    BY FirstEntries DEF Listed, ListTypeOK
  <1>5. /\ front \in Seq(S) /\ Len(front) = index
        /\ \A i \in 1 .. index : front[i] = Listed[i]
    BY <1>1, <1>3, SubSeqProperties
  <1>6. /\ back \in Seq(S) /\ Len(back) = n - 1 - index
        /\ \A i \in 1 .. (n - 1 - index) : back[i] = Listed[index + 1 + i]
    <2>1. \A i \in (index + 2) .. n : Listed[i] \in S
      BY <1>1, <1>3
    <2>2. /\ SubSeq(Listed, index + 2, n) \in Seq(S)
          /\ Len(SubSeq(Listed, index + 2, n)) = IF index + 2 <= n THEN n - (index + 2) + 1 ELSE 0
          /\ \A i \in 1 .. n - (index + 2) + 1 :
                SubSeq(Listed, index + 2, n)[i] = Listed[(index + 2) + i - 1]
      BY <1>1, <2>1, SubSeqProperties
    <2> QED
      BY <1>1, <2>2
  <1>7. /\ front \o back \in Seq(S) /\ Len(front \o back) = n - 1
        /\ \A i \in 1 .. (n - 1) : (front \o back)[i] =
              IF i <= index THEN Listed[i] ELSE Listed[i + 1]
    <2> HIDE DEF front, back, n
    <2> HIDE DEF S
    <2>0. /\ front \o back \in Seq(S) /\ Len(front \o back) = Len(front) + Len(back)
          /\ \A i \in 1 .. Len(front) + Len(back) : (front \o back)[i] =
                IF i <= Len(front) THEN front[i] ELSE back[i - Len(front)]
      BY <1>5, <1>6, ConcatProperties
    <2>1. /\ front \o back \in Seq(S) /\ Len(front \o back) = n - 1
          /\ \A i \in 1 .. (n - 1) : (front \o back)[i] =
                IF i <= index THEN front[i] ELSE back[i - index]
      <3>1. Len(front) + Len(back) = n - 1
        BY <1>1, <1>5, <1>6
      <3> QED
        BY <2>0, <1>5, <3>1
    <2>2. \A i \in 1 .. (n - 1) : i > index => /\ i - index \in 1 .. (n - 1 - index)
                                               /\ index + 1 + (i - index) = i + 1
      BY <1>1
    <2>3. ASSUME NEW i \in 1 .. (n - 1)
          PROVE  (front \o back)[i] = IF i <= index THEN Listed[i] ELSE Listed[i + 1]
      <3>1. CASE i <= index
        BY <1>1, <1>5, <2>1, <3>1
      <3>2. CASE ~(i <= index)
        <4>1. (front \o back)[i] = back[i - index]
          BY <2>1, <3>2
        <4>2. back[i - index] = Listed[index + 1 + (i - index)]
          BY <1>1, <1>6, <2>2, <3>2
        <4> QED
          BY <1>1, <2>2, <3>2, <4>1, <4>2
      <3> QED
        BY <3>1, <3>2
    <2> QED
      BY <2>1, <2>3
  <1>8. \A i \in 1 .. (n - 1) : moved[i] = IF i <= index THEN Listed[i] ELSE Listed[i + 1]
    <2>1. TAKE i \in 1 .. (n - 1)
    <2>2. i - 1 \in Slots /\ i \in 1 .. n /\ i + 1 \in 1 .. n
      BY <1>1, <1>2
    <2>3. i - 1 \in index .. (n - 2) <=> ~(i <= index)
      BY <1>1
    <2>4. moved[i] = IF i <= index THEN breakpoints[i - 1] ELSE breakpoints[i - 1 + 1]
      BY <2>2, <2>3 DEF MovedDown
    <2>5. i - 1 + 1 = i + 1 - 1
      BY <1>1
    <2> QED
      BY <2>2, <2>4, <2>5 DEF Listed
  <1>9. moved \in Seq(S) /\ Len(moved) = n - 1
    <2>1. \A i \in 1 .. (n - 1) : i \in 1 .. n /\ i + 1 \in 1 .. n
      BY <1>1
    <2>2. moved \in [1 .. (n - 1) -> S]
      BY <1>3, <1>8, <2>1
    <2>3. moved \in Seq(S)
      BY <1>1, <2>2, SeqDef
    <2>4. DOMAIN moved = 1 .. (n - 1) /\ DOMAIN moved = 1 .. Len(moved) /\ Len(moved) \in Nat
      BY <2>2, <2>3, LenProperties
    <2> QED
      BY <1>1, <2>3, <2>4
  <1>10. moved = front \o back
    <2> HIDE DEF moved, front, back
    <2> QED
      BY <1>7, <1>8, <1>9, SeqEqual
  <1>11. Without(Listed, index + 1) = front \o back
    BY <1>1, <1>4 DEF Without
  <1> QED
    BY <1>10, <1>11

LEMMA DeleteTakes ==
  ASSUME ListTypeOK, NEW index \in Indexes, DeleteBreakpoint(index)
  PROVE  Listed' = Without(Listed, index + 1)
  <1>1. index \in Int /\ bpCount \in Int /\ 0 <= index /\ index < bpCount
    BY IndexAssumption DEF DeleteBreakpoint, ListTypeOK
  <1>2. Listed' = [k \in 1 .. (bpCount - 1) |-> MovedDown(index)[k - 1]]
    BY DEF DeleteBreakpoint, Listed
  <1> QED
    BY <1>1, <1>2, MovedDownIsWithout

----------------------------------------------------------------------------
(* The invariant.                                                          *)

\* What the user types, and the ends of a session, leave the machine alone.
MachineKept == UNCHANGED <<vars, haltSeen>>

LEMMA MachineKeptKeeps ==
  ASSUME IInv, AtHalt, UNCHANGED <<vars, haltSeen>> PROVE IInv' /\ AtHalt'
  <1>1. IInv'
    BY NextKeeps
  <1>2. AtHalt'
    BY DEF vars, AtHalt, Instr, Args
  <1> QED
    BY <1>1, <1>2

LEMMA StepKinds ==
  ASSUME XdNext
  PROVE  \/ \E a \in Addresses : AddBreakpoint(a)
         \/ \E index \in Indexes : DeleteBreakpoint(index)
         \/ MachineKept /\ UNCHANGED bpList
              /\ session' \in {"prompt", "continuing", "ended"}
         \/ \E next \in {"prompt", "continuing", "ended"} : Execute(next)
  <1>1. CASE CmdStep
    BY <1>1 DEF CmdStep, MachineKept
  <1>2. CASE CmdContinue \/ CmdQuit
    BY <1>2 DEF CmdContinue, CmdQuit, MachineKept
  <1>3. CASE ContinueLoop
    BY <1>3 DEF ContinueLoop, MachineKept
  <1> QED
    BY <1>1, <1>2, <1>3 DEF XdNext

LEMMA AddKeeps ==
  ASSUME ListOK, NEW a \in Addresses, AddBreakpoint(a) PROVE ListOK'
  <1>1. MaxBreakpoints \in Nat /\ bpCount \in Int
    BY BreakpointAssumption DEF ListOK, ListTypeOK
  <1>2. bpCount \in Slots /\ bpCount' \in 0 .. MaxBreakpoints
    BY <1>1 DEF AddBreakpoint, ListOK, ListTypeOK, Slots
  <1>3. breakpoints' \in [Slots -> Addresses \cup {0}]
    BY <1>2 DEF AddBreakpoint, ListOK, ListTypeOK
  <1>4. wanted' \in Seq(Addresses)
    BY AppendProperties DEF AddBreakpoint, ListOK, ListTypeOK
  <1>5. ListTypeOK'
    BY <1>2, <1>3, <1>4 DEF AddBreakpoint, ListOK, ListTypeOK
  <1>6. Listed' = Append(Listed, a)
    BY <1>5, AddAppends DEF ListOK
  <1>7. ListIsWhatWasTyped'
    BY <1>6 DEF ListOK, ListIsWhatWasTyped, AddBreakpoint
  <1> QED
    BY <1>5, <1>7 DEF ListOK

LEMMA DeleteKeeps ==
  ASSUME ListOK, NEW index \in Indexes, DeleteBreakpoint(index) PROVE ListOK'
  <1>1. /\ MaxBreakpoints \in Nat /\ index \in Int /\ bpCount \in Int
        /\ 0 <= index /\ index < bpCount
    BY BreakpointAssumption, IndexAssumption DEF DeleteBreakpoint, ListOK, ListTypeOK
  <1>2. \A i \in Slots : i \in index .. (bpCount - 2) => i + 1 \in Slots
    BY <1>1 DEF ListOK, ListTypeOK, Slots
  <1>3. MovedDown(index) \in [Slots -> Addresses \cup {0}]
    BY <1>2 DEF MovedDown, ListOK, ListTypeOK
  <1>4. bpCount' \in 0 .. MaxBreakpoints
    BY <1>1 DEF DeleteBreakpoint, ListOK, ListTypeOK
  <1>5. wanted' \in Seq(Addresses)
    <2>1. wanted \in Seq(Addresses) /\ wanted = Listed /\ Len(wanted) = bpCount
      BY FirstEntries DEF ListOK, ListTypeOK, ListIsWhatWasTyped, Listed
    <2>2. \A i \in 1 .. bpCount : wanted[i] \in Addresses
      BY <2>1, ElementOfSeq
    <2>3. SubSeq(wanted, 1, (index + 1) - 1) \in Seq(Addresses)
      BY <1>1, <2>2, SubSeqProperties
    <2>4. SubSeq(wanted, (index + 1) + 1, Len(wanted)) \in Seq(Addresses)
      BY <1>1, <2>1, <2>2, SubSeqProperties
    <2>5. wanted' = Without(wanted, index + 1)
      BY DEF DeleteBreakpoint
    <2> QED
      BY <2>3, <2>4, <2>5, ConcatProperties DEF Without
  <1>6. Listed' = Without(Listed, index + 1)
    BY DeleteTakes DEF ListOK
  <1>7. ListIsWhatWasTyped'
    BY <1>6 DEF ListOK, ListIsWhatWasTyped, DeleteBreakpoint
  <1> QED
    BY <1>3, <1>4, <1>5, <1>7 DEF DeleteBreakpoint, ListOK, ListTypeOK

LEMMA XdInitInv == XdInit => XdIInv
  <1> SUFFICES ASSUME XdInit PROVE XdIInv
    OBVIOUS
  <1>1. IInv
    BY InitInv DEF XdInit
  <1>2. breakpoints \in [Slots -> Addresses \cup {0}]
    BY DEF XdInit
  <1>3. ListTypeOK
    <2>1. bpCount \in 0 .. MaxBreakpoints
      BY BreakpointAssumption DEF XdInit
    <2>2. session \in {"prompt", "continuing", "ended"} /\ haltSeen \in BOOLEAN
      BY Zenon DEF XdInit
    <2>3. wanted \in Seq(Addresses)
      BY EmptySeq DEF XdInit
    <2> QED
      BY <1>2, <2>1, <2>2, <2>3 DEF ListTypeOK
  <1>4. AtHalt
    BY DEF XdInit, AtHalt
  <1>5. ListIsWhatWasTyped
    <2>1. bpCount = 0 /\ wanted = <<>>
      BY DEF XdInit
    <2>2. Listed \in Seq(Addresses \cup {0}) /\ Len(Listed) = 0
      BY <1>3, <2>1, FirstEntries DEF Listed, ListTypeOK
    <2> QED
      BY <2>1, <2>2, EmptySeq DEF ListIsWhatWasTyped
  <1> QED
    BY <1>1, <1>3, <1>4, <1>5 DEF XdIInv, ListOK

\* Executing an instruction under the debugger is a step of the machine,
\* whatever `halted` says; a `halt` leaves the machine where it is.
LEMMA ExecuteKeeps ==
  ASSUME XdIInv, NEW next \in {"prompt", "continuing", "ended"}, Execute(next)
  PROVE  XdIInv'
  <1>1. ExecuteInstruction /\ IInv /\ CanExecute
    BY ExecutesAtIp DEF Execute, XdIInv
  <1>2. IInv'
    BY <1>1, InstructionCases, CaseKeeps
  <1>3. ListOK'
    BY DEF Execute, XdIInv, ListOK, ListTypeOK, ListIsWhatWasTyped, Listed, bpList
  <1>4. ASSUME Instr.op = "halt" PROVE AtHalt'
    <2>1. ExecHalt
      BY <1>1, <1>4, CallRetHalt
    <2>2. /\ UNCHANGED <<code, ip, status>>
          /\ exitCode' = IF Len(Args) = 1 THEN Atoi(Args[1]) ELSE exitCode
      BY <2>1 DEF ExecHalt, prog
    <2>3. Instr' = Instr /\ Args' = Args
      BY <2>2 DEF Instr, Args
    <2> QED
      BY <1>1, <1>4, <2>2, <2>3 DEF AtHalt, CanExecute
  <1>5. ASSUME Instr.op # "halt" PROVE AtHalt'
    BY <1>5 DEF AtHalt, XdIInv, Execute
  <1> QED
    BY <1>2, <1>3, <1>4, <1>5 DEF XdIInv

LEMMA XdNextKeeps == ASSUME XdIInv, [XdNext]_xdVars PROVE XdIInv'
  <1>1. CASE \E a \in Addresses : AddBreakpoint(a)
    <2>1. ListOK' /\ UNCHANGED <<vars, haltSeen>>
      BY <1>1, AddKeeps DEF XdIInv, AddBreakpoint
    <2> QED
      BY <2>1, MachineKeptKeeps DEF XdIInv
  <1>2. CASE \E index \in Indexes : DeleteBreakpoint(index)
    <2>1. ListOK' /\ UNCHANGED <<vars, haltSeen>>
      BY <1>2, DeleteKeeps DEF XdIInv, DeleteBreakpoint
    <2> QED
      BY <2>1, MachineKeptKeeps DEF XdIInv
  <1>3. CASE /\ MachineKept /\ UNCHANGED bpList
             /\ session' \in {"prompt", "continuing", "ended"}
    <2>1. ListOK'
      BY <1>3 DEF XdIInv, ListOK, ListTypeOK, ListIsWhatWasTyped, Listed, bpList, MachineKept
    <2> QED
      BY <1>3, <2>1, MachineKeptKeeps DEF XdIInv, MachineKept
  <1>4. CASE \E next \in {"prompt", "continuing", "ended"} : Execute(next)
    BY <1>4, ExecuteKeeps
  <1>5. CASE UNCHANGED xdVars
    BY <1>5, MachineKeptKeeps
    DEF xdVars, debugger, bpList, XdIInv, ListOK, ListTypeOK, ListIsWhatWasTyped, Listed
  <1> QED
    BY <1>1, <1>2, <1>3, <1>4, <1>5, StepKinds

\* The invariant of the machine and of the debugger's list holds in every
\* state of every session.
THEOREM XdInvariance == XdSpec => []XdIInv
  BY XdInitInv, XdNextKeeps, PTL DEF XdSpec

\* The list of breakpoints never outgrows its array and holds nothing but
\* addresses that were typed, and the machine keeps its types although
\* execute_instruction is called without the tests of execute_program.
THEOREM XdTypeCorrect == XdSpec => []XdTypeOK
  <1>1. XdIInv => XdTypeOK
    BY DEF XdIInv, IInv, ListOK, ListTypeOK, XdTypeOK
  <1> QED
    BY <1>1, XdInvariance, PTL

----------------------------------------------------------------------------
(* The list of breakpoints.                                                *)

\* A `continue` never passes a breakpoint of the list: the test comes before
\* every instruction, and the prompt comes back at the breakpoint.
THEOREM BreakpointsAreKept == XdSpec => BreakpointsHold
  <1>1. ASSUME XdIInv, XdNext, session = "continuing",
               \E k \in 1 .. bpCount : Listed[k] = ip
        PROVE  session' = "prompt" /\ ip' = ip
    <2>1. PICK k \in 1 .. bpCount : breakpoints[k - 1] = ip
      BY <1>1 DEF Listed
    <2>2. k - 1 \in 0 .. (bpCount - 1)
      BY <1>1, <2>1 DEF XdIInv, ListOK, ListTypeOK
    <2>3. IsBreakpoint(ip)
      BY <2>1, <2>2 DEF IsBreakpoint
    <2>4. ContinueLoop
      BY <1>1 DEF XdNext, AddBreakpoint, DeleteBreakpoint, CmdStep, CmdContinue, CmdQuit
    <2> QED
      BY <2>3, <2>4 DEF ContinueLoop, vars
  <1>2. ASSUME XdIInv, [XdNext]_xdVars
        PROVE  [session = "continuing" /\ (\E k \in 1 .. bpCount : Listed[k] = ip)
                  => session' = "prompt" /\ ip' = ip]_xdVars
    BY <1>1, <1>2
  <1> QED
    BY <1>2, XdInvariance, PTL DEF XdSpec, BreakpointsHold

\* Whatever was added and deleted, in whichever order, the list is what the
\* user has asked for: a `delete` takes the entry it names and no other.
THEOREM DeleteTakesOne == XdSpec => []ListIsWhatWasTyped
  <1>1. XdIInv => ListIsWhatWasTyped
    BY DEF XdIInv, ListOK
  <1> QED
    BY <1>1, XdInvariance, PTL

----------------------------------------------------------------------------
(* The machine under the debugger.                                         *)

\* What the definitions of VM say of words, of the operands and of the memory
\* instructions is what the machine's own say: none of them reads `halted`.
LEMMA SameWords ==
  /\ \A s : VM!Top(s) = Top(s)
  /\ \A s, n : VM!Popped(s, n) = Popped(s, n)
  /\ \A s, w : VM!Push(s, StackCap, w) = Push(s, StackCap, w)
  /\ \A w : VM!IsInt(w) = IsInt(w)
  /\ \A w : VM!NullString(w) = NullString(w)
  /\ \A t : VM!WordsOf(t) = WordsOf(t)
  /\ \A op, a, b : VM!CompareWords(op, a, b) = CompareWords(op, a, b)
  /\ VM!NullWord = NullWord
  BY Zenon DEF
       Peek, Top, Popped, Push, IsInt, NullStr, NullString, Ints, ValuesOf, WordsOf, Wrap,
       IntWord, Truth, Compares, CompareWords, NullWord, VM!Peek, VM!Top, VM!Popped, VM!Push,
       VM!IsInt, VM!NullStr, VM!NullString, VM!Ints, VM!ValuesOf, VM!WordsOf, VM!Wrap,
       VM!IntWord, VM!Truth, VM!Compares, VM!CompareWords, VM!NullWord

LEMMA SameState ==
  /\ VM!W1 = W1 /\ VM!W2 = W2 /\ VM!Args = Args
  /\ \A op : VM!At(op) = At(op)
  /\ \A o : VM!IsReg(o) = IsReg(o)
  /\ VM!AllocStackCount = AllocStackCount
  BY SameWords, Zenon DEF
       W1, W2, Args, At, Instr, CanExecute, IsReg, AllocStackCount, VM!W1, VM!W2, VM!Args,
       VM!At, VM!Instr, VM!CanExecute, VM!IsReg, VM!AllocStackCount

LEMMA SameMemory ==
  /\ \A n : VM!AfterAddr(n) = AfterAddr(n)
  /\ \A n : VM!AfterOffset(n) = AfterOffset(n)
  /\ \A n : VM!AfterType(n) = AfterType(n)
  /\ \A n : VM!MemAddr(n) = MemAddr(n)
  /\ \A n : VM!MemOffset(n) = MemOffset(n)
  /\ \A n : VM!MemTypeValid(n) = MemTypeValid(n)
  /\ \A n : VM!MemType(n) = MemType(n)
  /\ \A t : VM!Storable(t) = Storable(t)
  BY SameWords, SameState, Zenon DEF
       Wrap, IntWord, TypeOf, WordTypes, TypeCodes, AfterAddr, AfterOffset, AfterType, MemAddr,
       MemOffset, MemTypeWord, MemTypeValid, MemType, Storable, VM!Wrap, VM!IntWord, VM!TypeOf,
       VM!WordTypes, VM!TypeCodes, VM!AfterAddr, VM!AfterOffset, VM!AfterType, VM!MemAddr,
       VM!MemOffset, VM!MemTypeWord, VM!MemTypeValid, VM!MemType, VM!Storable

\* The ways an instruction ends keep `halted`, there, and `haltSeen`, here.
LEMMA SameEndings ==
  ASSUME haltSeen' = haltSeen
  PROVE  /\ \A s : StackStep(s) => VM!StackStep(s)
         /\ \A r, w : RegStep(r, w) => VM!RegStep(r, w)
         /\ \A s : MemFault(s) => VM!MemFault(s)
         /\ \A z, s, d : Allocate(z, s, d) => VM!Allocate(z, s, d)
         /\ \A r : Reduce(r) => VM!Reduce(r)
         /\ EError => VM!EError
         /\ Crash => VM!Crash
  BY SameWords, Zenon DEF
       StackStep, RegStep, Step, MemFault, Allocate, Reduce, EError, Crash, SomePtr, prog,
       scopes, outcome, VM!StackStep, VM!RegStep, VM!Step, VM!MemFault, VM!Allocate, VM!Reduce,
       VM!EError, VM!Crash, VM!SomePtr, VM!prog, VM!scopes, VM!outcome

\* The three instructions whose definitions are too long to compare expanded.
LEMMA SameReadMem == ASSUME haltSeen' = haltSeen, ExecReadMem PROVE VM!ExecReadMem
  BY SameWords, SameState, SameMemory, SameEndings, SMT DEF ExecReadMem, VM!ExecReadMem

LEMMA SameCompare == ASSUME haltSeen' = haltSeen, ExecCompare PROVE VM!ExecCompare
  <1>1. VM!Comparisons = Comparisons
    BY DEF Comparisons, VM!Comparisons
  <1> QED
    BY <1>1, SameWords, SameState, SameEndings, SMT DEF ExecCompare, VM!ExecCompare

LEMMA SameAllocStack == ASSUME haltSeen' = haltSeen, ExecAllocStack PROVE VM!ExecAllocStack
  BY SameWords, SameState, SameEndings, SMT DEF ExecAllocStack, VM!ExecAllocStack

\* Every other instruction: its two definitions are the same formula once the
\* operators they are built from are expanded.
LEMMA SameInstruction ==
  ASSUME haltSeen' = haltSeen, ExecuteInstruction, ~ExecHalt
  PROVE  VM!ExecuteInstruction
  <1> USE DEF
          Ints, TypeCodes, WordTypes, ValuesOf, WordsOf, NullWord, SomePtr, NullStr, Str,
          StrLen, Wrap, IntWord, Truth, IsInt, BothInt, BothFloat, PtrMoved, AbsVal, CQuot,
          CRem, AddWords, SubWords, MulWords, ZeroTests, QuotTraps, DivWords, ModWords, OrInts,
          OrWords, XorInts, NotWords, Compares, CompareWords, NullString, RegSum, Displaced,
          CmpInts, CastWords, VM!Ints, VM!TypeCodes, VM!WordTypes, VM!ValuesOf, VM!WordsOf,
          VM!NullWord, VM!SomePtr, VM!NullStr, VM!Str, VM!StrLen, VM!Wrap, VM!IntWord, VM!Truth,
          VM!IsInt, VM!BothInt, VM!BothFloat, VM!PtrMoved, VM!AbsVal, VM!CQuot, VM!CRem,
          VM!AddWords, VM!SubWords, VM!MulWords, VM!ZeroTests, VM!QuotTraps, VM!DivWords,
          VM!ModWords, VM!OrInts, VM!OrWords, VM!XorInts, VM!NotWords, VM!Compares,
          VM!CompareWords, VM!NullString, VM!RegSum, VM!Displaced, VM!CmpInts, VM!CastWords,
          Push, PushAll, Peek, Top, Popped, TempOf, FromTemp, Rotatable, ShiftedDown, ShiftedUp,
          RotL, RotR, VM!Push, VM!PushAll, VM!Peek, VM!Top, VM!Popped, VM!TempOf, VM!FromTemp,
          VM!Rotatable, VM!ShiftedDown, VM!ShiftedUp, VM!RotL, VM!RotR,
          Name, Garbled, IsNum, IsFloat, IsStr, IsPtr, IsReg, IsName, Atoi, TypeOf, prog,
          scopes, outcome, Absent, NoVars, Scope, IsVar, VarValue, FirstNamed, FoundAt,
          HasLabel, LabelAddress, CanExecute, Instr, Args, At, Step, StackStep, RegStep,
          VarStep, VarStepGlobal, EError, Crash, MemFault, Overlong, SomeStrings, W1, W2,
          Reduce, SrcWord, SrcValid, Comparisons, Comparable, Bump, JumpTarget, InProgram, Goto,
          ArgWords, ArgFaults, CallTargetValid, CutPointers, ArgWord, Pushed, ReturnAddress,
          PushVar, Allocate, CountsOf, OperandSizes, AllocDest, AllocStackCount, AfterAddr,
          AfterOffset, AfterType, MemAddr, MemOffset, MemTypeWord, MemTypeValid, MemType,
          Storable, Queries, Answers, Service, ExternalCall, VM!Name, VM!Garbled, VM!IsNum,
          VM!IsFloat, VM!IsStr, VM!IsPtr, VM!IsReg, VM!IsName, VM!Atoi, VM!TypeOf, VM!prog,
          VM!scopes, VM!outcome, VM!Absent, VM!NoVars, VM!Scope, VM!IsVar, VM!VarValue,
          VM!FirstNamed, VM!FoundAt, VM!HasLabel, VM!LabelAddress, VM!CanExecute, VM!Instr,
          VM!Args, VM!At, VM!Step, VM!StackStep, VM!RegStep, VM!VarStep, VM!VarStepGlobal,
          VM!EError, VM!Crash, VM!MemFault, VM!Overlong, VM!SomeStrings, VM!W1, VM!W2,
          VM!Reduce, VM!SrcWord, VM!SrcValid, VM!Comparisons, VM!Comparable, VM!Bump,
          VM!JumpTarget, VM!InProgram, VM!Goto, VM!ArgWords, VM!ArgFaults, VM!CallTargetValid,
          VM!CutPointers, VM!ArgWord, VM!Pushed, VM!ReturnAddress, VM!PushVar, VM!Allocate,
          VM!CountsOf, VM!OperandSizes, VM!AllocDest, VM!AllocStackCount, VM!AfterAddr,
          VM!AfterOffset, VM!AfterType, VM!MemAddr, VM!MemOffset, VM!MemTypeWord,
          VM!MemTypeValid, VM!MemType, VM!Storable, VM!Queries, VM!Answers, VM!Service,
          VM!ExternalCall
  <1>1. ASSUME ExecPush PROVE VM!ExecPush
    BY <1>1, ZenonT(60) DEF ExecPush, VM!ExecPush
  <1>2. ASSUME ExecMov PROVE VM!ExecMov
    BY <1>2, ZenonT(60) DEF ExecMov, VM!ExecMov
  <1>3. ASSUME ExecPop PROVE VM!ExecPop
    BY <1>3, ZenonT(60) DEF ExecPop, VM!ExecPop
  <1>4. ASSUME ExecLoad PROVE VM!ExecLoad
    BY <1>4, ZenonT(60) DEF ExecLoad, VM!ExecLoad
  <1>5. ASSUME ExecStore PROVE VM!ExecStore
    BY <1>5, ZenonT(60) DEF ExecStore, VM!ExecStore
  <1>6. ASSUME ExecPrint PROVE VM!ExecPrint
    BY <1>6, ZenonT(60) DEF ExecPrint, VM!ExecPrint
  <1>7. ASSUME ExecDup PROVE VM!ExecDup
    BY <1>7, ZenonT(60) DEF ExecDup, VM!ExecDup
  <1>8. ASSUME ExecSwap PROVE VM!ExecSwap
    BY <1>8, ZenonT(60) DEF ExecSwap, VM!ExecSwap
  <1>9. ASSUME ExecDrop PROVE VM!ExecDrop
    BY <1>9, ZenonT(60) DEF ExecDrop, VM!ExecDrop
  <1>10. ASSUME ExecRotL PROVE VM!ExecRotL
    BY <1>10, ZenonT(60) DEF ExecRotL, VM!ExecRotL
  <1>11. ASSUME ExecRotR PROVE VM!ExecRotR
    BY <1>11, ZenonT(60) DEF ExecRotR, VM!ExecRotR
  <1>12. ASSUME ExecSizeof PROVE VM!ExecSizeof
    BY <1>12, ZenonT(60) DEF ExecSizeof, VM!ExecSizeof
  <1>13. ASSUME ExecCast PROVE VM!ExecCast
    BY <1>13, ZenonT(60) DEF ExecCast, VM!ExecCast
  <1>14. ASSUME ExecHere PROVE VM!ExecHere
    BY <1>14, ZenonT(60) DEF ExecHere, VM!ExecHere
  <1>15. ASSUME ExecEval PROVE VM!ExecEval
    BY <1>15, ZenonT(60) DEF ExecEval, VM!ExecEval
  <1>16. ASSUME ExecAdd PROVE VM!ExecAdd
    BY <1>16, ZenonT(60) DEF ExecAdd, VM!ExecAdd
  <1>17. ASSUME ExecSub PROVE VM!ExecSub
    BY <1>17, ZenonT(60) DEF ExecSub, VM!ExecSub
  <1>18. ASSUME ExecMul PROVE VM!ExecMul
    BY <1>18, ZenonT(60) DEF ExecMul, VM!ExecMul
  <1>19. ASSUME ExecDiv PROVE VM!ExecDiv
    BY <1>19, ZenonT(60) DEF ExecDiv, VM!ExecDiv
  <1>20. ASSUME ExecMod PROVE VM!ExecMod
    BY <1>20, ZenonT(60) DEF ExecMod, VM!ExecMod
  <1>21. ASSUME ExecAnd PROVE VM!ExecAnd
    BY <1>21, ZenonT(60) DEF ExecAnd, VM!ExecAnd
  <1>22. ASSUME ExecOr PROVE VM!ExecOr
    BY <1>22, ZenonT(60) DEF ExecOr, VM!ExecOr
  <1>23. ASSUME ExecXor PROVE VM!ExecXor
    BY <1>23, ZenonT(60) DEF ExecXor, VM!ExecXor
  <1>24. ASSUME ExecNot PROVE VM!ExecNot
    BY <1>24, ZenonT(60) DEF ExecNot, VM!ExecNot
  <1>25. ASSUME ExecCmp PROVE VM!ExecCmp
    BY <1>25, ZenonT(60) DEF ExecCmp, VM!ExecCmp
  <1>26. ASSUME ExecInc PROVE VM!ExecInc
    BY <1>26, ZenonT(60) DEF ExecInc, VM!ExecInc
  <1>27. ASSUME ExecDec PROVE VM!ExecDec
    BY <1>27, ZenonT(60) DEF ExecDec, VM!ExecDec
  <1>28. ASSUME ExecJmp PROVE VM!ExecJmp
    BY <1>28, ZenonT(60) DEF ExecJmp, VM!ExecJmp
  <1>29. ASSUME ExecJmpif PROVE VM!ExecJmpif
    BY <1>29, ZenonT(60) DEF ExecJmpif, VM!ExecJmpif
  <1>30. ASSUME ExecCall PROVE VM!ExecCall
    BY <1>30, ZenonT(60) DEF ExecCall, VM!ExecCall
  <1>31. ASSUME ExecRet PROVE VM!ExecRet
    BY <1>31, ZenonT(60) DEF ExecRet, VM!ExecRet
  <1>32. ASSUME ExecNop PROVE VM!ExecNop
    BY <1>32, ZenonT(60) DEF ExecNop, VM!ExecNop
  <1>33. ASSUME ExecVar PROVE VM!ExecVar
    BY <1>33, ZenonT(60) DEF ExecVar, VM!ExecVar
  <1>34. ASSUME ExecSetvar PROVE VM!ExecSetvar
    BY <1>34, ZenonT(60) DEF ExecSetvar, VM!ExecSetvar
  <1>35. ASSUME ExecGetvar PROVE VM!ExecGetvar
    BY <1>35, ZenonT(60) DEF ExecGetvar, VM!ExecGetvar
  <1>36. ASSUME ExecSetglobalvar PROVE VM!ExecSetglobalvar
    BY <1>36, ZenonT(60) DEF ExecSetglobalvar, VM!ExecSetglobalvar
  <1>37. ASSUME ExecGetglobalvar PROVE VM!ExecGetglobalvar
    BY <1>37, ZenonT(60) DEF ExecGetglobalvar, VM!ExecGetglobalvar
  <1>38. ASSUME ExecToggle PROVE VM!ExecToggle
    BY <1>38, ZenonT(60) DEF ExecToggle, VM!ExecToggle
  <1>39. ASSUME ExecAllocOperands PROVE VM!ExecAllocOperands
    BY <1>39, ZenonT(60) DEF ExecAllocOperands, VM!ExecAllocOperands
  <1>40. ASSUME ExecWriteMem PROVE VM!ExecWriteMem
    BY <1>40, ZenonT(60) DEF ExecWriteMem, VM!ExecWriteMem
  <1>41. ASSUME ExecCpyMem PROVE VM!ExecCpyMem
    BY <1>41, ZenonT(60) DEF ExecCpyMem, VM!ExecCpyMem
  <1>42. ASSUME ExecMemCmp PROVE VM!ExecMemCmp
    BY <1>42, ZenonT(60) DEF ExecMemCmp, VM!ExecMemCmp
  <1>43. ASSUME ExecFree PROVE VM!ExecFree
    BY <1>43, ZenonT(60) DEF ExecFree, VM!ExecFree
  <1>44. ASSUME ExecMerge PROVE VM!ExecMerge
    BY <1>44, ZenonT(60) DEF ExecMerge, VM!ExecMerge
  <1>45. ASSUME ExecSprintf PROVE VM!ExecSprintf
    BY <1>45, ZenonT(60) DEF ExecSprintf, VM!ExecSprintf
  <1>46. ASSUME ExecOvm PROVE VM!ExecOvm
    BY <1>46, ZenonT(60) DEF ExecOvm, VM!ExecOvm
  <1>47. ASSUME ExecXcall PROVE VM!ExecXcall
    BY <1>47, ZenonT(60) DEF ExecXcall, VM!ExecXcall
  <1> QED
    BY <1>1, <1>2, <1>3, <1>4, <1>5, <1>6, <1>7, <1>8, <1>9, <1>10, <1>11, <1>12, <1>13, <1>14,
       <1>15, <1>16, <1>17, <1>18, <1>19, <1>20, <1>21, <1>22, <1>23, <1>24, <1>25, <1>26,
       <1>27, <1>28, <1>29, <1>30, <1>31, <1>32, <1>33, <1>34, <1>35, <1>36, <1>37, <1>38,
       <1>39, <1>40, <1>41, <1>42, <1>43, <1>44, <1>45, <1>46, <1>47,
       SameReadMem, SameCompare, SameAllocStack, Zenon
       DEF ExecuteInstruction, VM!ExecuteInstruction

\* `halt` is where the session sets what the machine calls `halted`.
LEMMA SameHalt == ASSUME haltSeen' = TRUE, ExecHalt PROVE VM!ExecHalt
  BY SameState, Zenon DEF ExecHalt, Atoi, IsNum, IsFloat, prog, scopes,
       VM!ExecHalt, VM!Atoi, VM!IsNum, VM!IsFloat, VM!prog, VM!scopes

LEMMA SameInit == XdInit => VM!Init
  BY Zenon DEF XdInit, Init, EntryOf, FirstNamed, FoundAt, NoVars, Absent, NullWord,
       VM!Init, VM!EntryOf, VM!FirstNamed, VM!FoundAt, VM!NoVars, VM!Absent, VM!NullWord

\* An instruction executed under the debugger is the machine's next step, as
\* long as the session has met no `halt`; a second `halt` changes nothing.
LEMMA SameStep ==
  ASSUME XdIInv, NEW next \in {"prompt", "continuing", "ended"}, Execute(next)
  PROVE  VM!Next \/ UNCHANGED VM!vars
  <1>1. ExecuteInstruction /\ haltSeen' = (haltSeen \/ Instr.op = "halt")
    BY DEF Execute
  <1>2. haltSeen \in BOOLEAN
    BY DEF XdIInv, ListOK, ListTypeOK
  <1>3. CASE ~haltSeen /\ Instr.op = "halt"
    <2>1. ExecHalt /\ haltSeen' = TRUE
      BY <1>1, <1>3, CallRetHalt
    <2> QED
      BY <1>3, <2>1, SameHalt DEF VM!Next, VM!ExecuteInstruction
  <1>4. CASE ~haltSeen /\ Instr.op # "halt"
    <2>1. haltSeen' = haltSeen
      BY <1>1, <1>2, <1>4
    <2>2. ~ExecHalt
      BY <1>4 DEF ExecHalt, At
    <2> QED
      BY <1>1, <1>4, <2>1, <2>2, SameInstruction DEF VM!Next
  <1>5. CASE haltSeen
    <2>1. Instr.op = "halt" /\ (Len(Args) = 1 => exitCode = Atoi(Args[1]))
      BY <1>5 DEF XdIInv, AtHalt
    <2>2. ExecHalt
      BY <1>1, <2>1, CallRetHalt
    <2>3. UNCHANGED <<code, labels, ip, stack, callStack, regs, globals, local, inLocal,
                      exitCode, flags, status>>
      BY <2>1, <2>2, Zenon DEF ExecHalt, prog, scopes
    <2>4. UNCHANGED haltSeen
      BY <1>1, <1>2, <1>5
    <2> QED
      BY <2>3, <2>4 DEF VM!vars
  <1> QED
    BY <1>2, <1>3, <1>4, <1>5

\* The debugger implements the virtual machine: whatever is typed, the machine
\* under it runs its program the way execute_program does.
THEOREM DebuggerImplementsMachine == XdSpec => DebuggerRunsProgram
  <1>1. ASSUME XdIInv, [XdNext]_xdVars PROVE [VM!Next]_(VM!vars)
    <2>1. ASSUME UNCHANGED <<vars, haltSeen>> PROVE UNCHANGED VM!vars
      BY <2>1 DEF vars, VM!vars
    <2>2. CASE UNCHANGED xdVars
      BY <2>1, <2>2 DEF xdVars
    <2>3. CASE \E next \in {"prompt", "continuing", "ended"} : Execute(next)
      BY <1>1, <2>3, SameStep
    <2>4. CASE XdNext /\ UNCHANGED <<vars, haltSeen>>
      BY <2>1, <2>4
    <2> QED
      BY <1>1, <2>2, <2>3, <2>4, StepKinds DEF AddBreakpoint, DeleteBreakpoint, MachineKept
  <1> QED
    BY <1>1, SameInit, XdInvariance, PTL DEF XdSpec, DebuggerRunsProgram, VM!Spec

=============================================================================
