--------------------------------- MODULE Xd ---------------------------------
(***************************************************************************)
(* The debugger of src/src/xd.c on top of the virtual machine.  The        *)
(* machine is the one of OrtaVM: the debugger calls execute_instruction    *)
(* itself, from `step` and from the loop of `continue`, and never looks at *)
(* `halted`.                                                               *)
(*                                                                         *)
(* The commands that only print (list, registers, stack, memory,           *)
(* disassemble, help) change nothing and are no actions.                   *)
(***************************************************************************)
EXTENDS OrtaVM

CONSTANTS
    MaxBreakpoints,   \* MAX_BREAKPOINTS, 64
    Addresses,        \* the addresses a user types after `break`
    Indexes           \* the numbers a user types after `delete`

ASSUME BreakpointAssumption == MaxBreakpoints \in Nat /\ Addresses \subseteq Nat
ASSUME IndexAssumption      == Indexes \subseteq Int

VARIABLES
    breakpoints,   \* the array, with what is left behind bp_count in it
    bpCount,       \* bp_count
    session,       \* "prompt" before fgets, "continuing" in cmd_continue's loop,
                   \* "ended" after main's loop or the end of the process
    wanted,        \* history: the list the user's breaks and deletes ask for
    haltSeen       \* history: the session has executed a `halt`

bpList   == <<breakpoints, bpCount, wanted>>
debugger == <<bpList, session>>
xdVars   == <<vars, debugger, haltSeen>>

Slots == 0 .. (MaxBreakpoints - 1)

IsBreakpointShort(a) == \E i \in 0 .. (bpCount - 2) : breakpoints[i] = a
IsBreakpoint(a) == \E i \in 0 .. (bpCount - 1) : breakpoints[i] = a

XdInit == /\ Init
          /\ breakpoints = [i \in Slots |-> 0] /\ bpCount = 0
          /\ session = "prompt" /\ wanted = <<>> /\ haltSeen = FALSE

\* One call of execute_instruction, after which the debugger does `next`; an
\* instruction that calls EERROR or faults takes the debugger with it.
Execute(next) == /\ ExecuteInstruction
                 /\ haltSeen' = (haltSeen \/ Instr.op = "halt")
                 /\ session' = IF status' = "running" THEN next ELSE "ended"
                 /\ UNCHANGED bpList

AddBreakpointUnchecked(a) ==
    /\ session = "prompt"
    /\ breakpoints' = [i \in DOMAIN breakpoints \cup {bpCount} |->
                         IF i = bpCount THEN a ELSE breakpoints[i]]
    /\ bpCount' = bpCount + 1 /\ wanted' = Append(wanted, a)
    /\ bpCount <= MaxBreakpoints
    /\ UNCHANGED <<vars, session, haltSeen>>
AddBreakpoint(a) ==
    /\ session = "prompt" /\ bpCount < MaxBreakpoints
    /\ breakpoints' = [breakpoints EXCEPT ![bpCount] = a]
    /\ bpCount' = bpCount + 1 /\ wanted' = Append(wanted, a)
    /\ UNCHANGED <<vars, session, haltSeen>>

\* The list of a user's `delete`, whose entries are counted from 0
Without(list, k) == SubSeq(list, 1, k - 1) \o SubSeq(list, k + 1, Len(list))

\* memmove closes the gap and leaves the last entry where it was.
MovedDownTooFar(index) ==
    [i \in Slots |-> IF i \in index .. (bpCount - 3) THEN breakpoints[i + 2] ELSE breakpoints[i]]
MovedDown(index) ==
    [i \in Slots |-> IF i \in index .. (bpCount - 2) THEN breakpoints[i + 1] ELSE breakpoints[i]]
DeleteBreakpoint(index) ==
    /\ session = "prompt" /\ index >= 0 /\ index < bpCount
    /\ breakpoints' = MovedDown(index)
    /\ bpCount' = bpCount - 1 /\ wanted' = Without(wanted, index + 1)
    /\ UNCHANGED <<vars, session, haltSeen>>

\* `step` executes the instruction at ip, a breakpoint or not, and leaves the
\* session when the program is over.
StepOverBreakpoint ==
    /\ session = "prompt"
    /\ \/ ip >= Len(code) /\ session' = "ended" /\ UNCHANGED <<vars, bpList, haltSeen>>
       \/ /\ ip < Len(code) /\ ~IsBreakpoint(ip)
          /\ \E next \in {"prompt", "ended"} :
                Execute(next) /\ (next = "ended" <=> ip' >= Len(code'))
       \/ /\ ip < Len(code) /\ IsBreakpoint(ip)
          /\ ip' = ip + 1
          /\ UNCHANGED <<prog, stack, callStack, regs, scopes, outcome, debugger, haltSeen>>
CmdStep ==
    /\ session = "prompt"
    /\ \/ ip >= Len(code) /\ session' = "ended" /\ UNCHANGED <<vars, bpList, haltSeen>>
       \/ /\ ip < Len(code)
          /\ \E next \in {"prompt", "ended"} :
                Execute(next) /\ (next = "ended" <=> ip' >= Len(code'))

CmdContinue == /\ session = "prompt" /\ session' = "continuing"
               /\ UNCHANGED <<vars, bpList, haltSeen>>

CmdQuit == /\ session = "prompt" /\ session' = "ended"
           /\ UNCHANGED <<vars, bpList, haltSeen>>

\* One turn of cmd_continue's loop: the breakpoint is tested before the end.
ContinueLoopForever ==
    /\ session = "continuing"
    /\ \/ IsBreakpoint(ip) /\ session' = "prompt" /\ UNCHANGED <<vars, bpList, haltSeen>>
       \/ ~IsBreakpoint(ip) /\ ip < Len(code) /\ Execute("continuing")
ContinueLoop ==
    /\ session = "continuing"
    /\ \/ IsBreakpoint(ip) /\ session' = "prompt" /\ UNCHANGED <<vars, bpList, haltSeen>>
       \/ /\ ~IsBreakpoint(ip) /\ ip >= Len(code) /\ session' = "ended"
          /\ UNCHANGED <<vars, bpList, haltSeen>>
       \/ ~IsBreakpoint(ip) /\ ip < Len(code) /\ Execute("continuing")

XdNext == \/ \E a \in Addresses : AddBreakpoint(a)
          \/ \E index \in Indexes : DeleteBreakpoint(index)
          \/ CmdStep \/ CmdContinue \/ CmdQuit \/ ContinueLoop

XdSpec == XdInit /\ [][XdNext]_xdVars
\* The loop of `continue` runs by itself; the user need not type anything.
XdFairSpec == XdSpec /\ WF_xdVars(ContinueLoop)

----------------------------------------------------------------------------
(* Properties.                                                             *)

XdTypeOK == /\ TypeOK
            /\ breakpoints \in [Slots -> Addresses \cup {0}]
            /\ bpCount \in 0 .. MaxBreakpoints
            /\ session \in {"prompt", "continuing", "ended"}
            /\ wanted \in Seq(Addresses)
            /\ haltSeen \in BOOLEAN

\* Whatever is typed, the machine under the debugger does what execute_program
\* would have it do: breakpoints, steps and continues only divide the run, and
\* the `halt` that ends the program there is the last instruction that changes
\* anything here.  The debugger never reads `halted`, so the machine's own is
\* the one the session's `halt` has set.
VM == INSTANCE OrtaVM WITH halted <- haltSeen
DebuggerRunsProgram == VM!Spec

\* `continue` never executes an instruction the list of breakpoints shows, and
\* gives the prompt back there.
Listed == [k \in 1 .. bpCount |-> breakpoints[k - 1]]
BreakpointsHold ==
    [][session = "continuing" /\ (\E k \in 1 .. bpCount : Listed[k] = ip)
         => session' = "prompt" /\ ip' = ip]_xdVars

\* What the list shows is what was asked for: every break at the end, and of
\* each delete the entry with the number that was typed gone and no other, in
\* their order, whatever was added and deleted before and is left behind the
\* count in the array.
ListIsWhatWasTyped == Listed = wanted

\* In a program whose jumps and calls lead forward and that has no `halt`, a
\* `continue` comes back to the prompt or ends the session.
ContinueReturns ==
    (TargetsForward(code, labels) /\ \A k \in 1 .. Len(code) : code[k].op # "halt")
        => ((session = "continuing") ~> (session # "continuing"))

\* The help text says so of every program: "Continue execution until
\* breakpoint or end".
ContinueUntilEnd == (session = "continuing") ~> (session # "continuing")

=============================================================================
