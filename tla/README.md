# OrtaVM in TLA+

TLA+ models, TLC runs and TLAPS proofs for OrtaVM, a stack machine with an
assembler, a bytecode format, a debugger, a bundler, a small standard library
and a library of threads. Source
lines are those of the repository at the commit beside this directory.

## 1. The system

| component | source | state it keeps | operations | model |
|---|---|---|---|---|
| machine words | `src/orta.h:70-89` | a tag and a union of int, float, char, string, pointer, bool | arithmetic, comparison, casts | `XWord` |
| data stack, call stack | `orta.h:155-193` | an array of words, a count, a capacity | push, pop, peek; rotations | `XStack` |
| interpreter | `orta.h:785-2593`, `3270-3285` | program (instructions, labels, variables, `halted`, exit code), `ip`, two stacks, 15 registers, the current scope, header flags | 55 instructions, the loop of `execute_program` | `OrtaVM` |
| bytecode files | `orta.h:478-483`, `2595-3268` | the file, the program being read | save, load from a file, load from memory | `XBin` |
| debugger `xd` | `src/xd.c` | breakpoint array and count, the machine | break, delete, step, continue, quit | `Xd` |
| standard library | `std.x`, embedded by `src/std.h` | registers and stack of its caller | string buffers, register saving, library choice | `MCStd` (`rb` only) |
| assembler, preprocessor | `src/asm.h` | token list, defines, local labels, include depth, the program it fills | lex, include, define, name local labels, parse | `Asm` |
| driver `orta` | `src/orta.c` | options, files | preprocess, parse, run, save; or load, run | `Toolchain` |
| bundler `xbd` | `src/xbd.c` | list of unpacked files | bundle, unpack, run, list, inspect | `Toolchain` |
| XThread | `src/libs/xthread.c` | mutexes, condition variables, once flags, on Windows built from kernel objects, events and interlocked operations | lock, try, time out, unlock; wait, signal, broadcast; call once | `XLock`, `XOnce`, `XMutex`, `XCond` |
| REPL | `src/repl.c` | the growing program, a history ring of 100 | append a line and run its instruction, save | not modelled |
| allocators | `src/libs/allocator.h` | arenas, regions, pools | alloc, free, reset | not modelled: nothing uses them |
| containers, strings | `src/libs/vector.h`, `str.h`, `sb.h`, `xhex.h` | arrays | push, get, free | not modelled alone: a vector is a sequence |
| Nyva compiler | `src/nyva.c` | AST | source to `.x` text | not modelled: a sequential translator |
| tools `fcfx`, `xtoa`, editor files, examples, `v1/` | | none between calls | | not modelled: one pass over a file; inputs; a superseded version |

How they interact: the assembler (or a loader) fills `Program`; the interpreter
reads it, and writes into its operands in one place (`get_pointer`); after the
run `orta` saves the same, possibly changed, program as bytecode; `orta`, `xd`,
`xbd` and `fcfx` load bytecode; `xd` calls `execute_instruction` itself, so that
everything `execute_program` does around an instruction it has to do again;
`std.x` is included as text and runs on the interpreter; `xcall 3` calls into a
shared library that gets the machine itself.

### Where the difficulty is

There is one thread in the machine; threads are in XThread. What a test hardly
reaches:

- *limits*: both stacks drop what does not fit and no caller looks at the
  answer, so a program runs on with a word or a return address missing; a
  return on an empty call stack resumes at instruction 1;
- *control through arithmetic*: a jump sets `ip` to `target - 1` in a `size_t`
  and relies on the increment behind the switch, which early returns skip;
- *state left in the program*: operands cut by `get_pointer`, a scope that is
  opened and never closed, a `halted` nobody initialises;
- *two drivers of one machine*: `execute_program` and the debugger do not test
  the same things in the same order;
- *files*: bytecode is written in place and without a checksum, `fclose` is not
  tested, two loaders decode the same bytes with different code, one byte is
  read into an uninitialised enum, and cleanup after a failed load frees twice;
- *text in two passes*: the assembler preprocesses what it has preprocessed, in
  buffers that leave out what does not fit, with a lexer that drops characters;
- *commands that share a directory*: each leaves files the next one reads, may
  fail or be interrupted between two of them, and cleans up by name;
- *Windows threads*: locks whose owner and count are kept beside the kernel
  object, a condition variable built from two events, `call_once` without a lock.

`PROJECT.json` lists these hazards at their lines with the properties that
cover them.

### What makes each part correct

Machine: `ip` stays in the program; the call stack holds only places of calls;
a return resumes behind a call; arguments arrive in order; a local scope shields
the global variables; the program is not rewritten; a fault stops the loop; a
program that can end does. Debugger: a session is a run of the program, cut
into pieces; the list of breakpoints is what the user typed; `continue` comes
back. Bytecode: what loads is what was saved, and nothing else loads. Assembler:
what it accepts is a program the machine's properties speak of, local labels
stay in their sections, includes end. Tools: a command touches the files it is
about and no others, and a bundle runs with the files it was made of. Threads: a
mutex is a lock, a function of `call_once` runs once, a waiter for whom there is
something is woken.

## 2. Modules

`XWord` - words. Ints are two's complement of width `2 * Half`. Floats are zero
or not, strings are NULL or a length that saturates at `MaxLen`, pointers NULL or
not: what the branches of the interpreter can tell apart. Where this loses a
result, an operator returns the set of results the code can produce; the empty
set stands for `EERROR`. Signed overflow is modelled as wrapping, which is what
the builds of the Makefile produce; floats are not computed.

`XStack` - a stack is a sequence with its top last, and a capacity.

`OrtaVM` - the interpreter. Variables: `code`, `labels` (the program), `ip`,
`stack`, `callStack`, `regs` (`xpu`), `globals`, `local`, `inLocal`
(`program.variables` and what `current_scope` points at), `halted`, `exitCode`,
`flags`, and `status` for how the run ended: in the loop, stopped, `EERROR`, or
a signal. One action per case of the switch, `ExecPush` to `ExecXcall`, with its
early returns and the final `ip++`; comparisons share one action, `alloc` has one
for its operand form and one for its stack form. `Next` is a turn of
`execute_program`, which tests `halted` and `ip` first; `Stop` is the end of the
loop. Uninitialised data is a choice: `halted` starts as either value, a printed
NULL string may fault, the fixed buffers of `hmerge` and `sprintf` may overflow,
memory reads return any word of the type or fault. Programs are a constant: all well-formed
ones in the proofs, the sets of the MC modules in the runs. They include what the
assembler cannot write but the REPL and bytecode files can (negative numbers,
floats, pointers, `@w`: the lexer drops those characters). A literal keeps in
`whole` what `atoi` makes of its text, since the word of a float has lost it.

`Xd` - `EXTENDS OrtaVM`. `breakpoints` is the whole array with what `memmove`
leaves behind `bpCount`; `CmdStep`, `CmdContinue` and `ContinueLoop` (one turn of
`cmd_continue`'s loop) execute the interpreter's own actions. `wanted` is a history
variable, the list that the user's breaks and deletes ask for; `haltSeen` is one
for the refinement. `VM == INSTANCE OrtaVM WITH halted <-
haltSeen`: the abstract specification of the debugger is the machine itself.

`XBin` - bytecode. A file is a sequence of the fields that the loaders read one
by one; saving appends them in order and may be cut anywhere, also by the last
write inside `fclose`; loading consumes them with the loops and tests of
`load_xbin`, and `loader` chooses which of the two loaders decodes numbers.
`garbled` is the rest of the uninitialised `opcode`. A failed load ends in
`failed` or `crashed`, because its cleanup frees memory twice; the heap is not
modelled. `IsProgram` is what a machine may have to save: its flags are among
four, each set once, and the one of `xcall` is set only if the program has an
`xcall`.

`Asm` - `EXTENDS OrtaVM`: parsing fills `code` and `labels` of the machine. A
text is a sequence of marks (words, numbers, strings, directives, signs);
`Tokenize` is the lexer, with its error token for a character it does not know. A
directive takes the rest of its line (`DefineToken` reads name and value from it as
`sscanf` does), the signs of other directives included: the value of a define may
be a define, which the first pass writes into its text and the second one obeys.
Words that come to stand side by side, where a define matches the end of a word or
an included text follows a word, are one word to the next pass (`Join`).
`frames` are the active calls of `preprocess_file`, one action per branch of its
loop and one for its return; `PpDone` starts the second pass, or parsing.
`depth`, `defines`, `locals` and `context` are the fields of `Preprocessor`.
Every mark counts one character of the buffer, so that what is left out is left
out mark by mark. A define matches a word or the end of one (`Compounds`), since
the code compares at every character. `include_paths` is not there: nothing
reads it. A label's word that finds no room is left out while its colon is put
(`asm.h:592`), behind whatever stands there; the history variable `filled` says
that the text handed to the parser fills its buffer, without which that cannot
have happened. `ProjectAssumption` only says what files are: sequences of marks,
in any order, whose words are no signs (`NoWords`).

`Toolchain` - what `orta` and `xbd` do to one directory. `disk` maps the names of
files to what they hold; a file written in part is `Cut`. One action per file
read, written or removed, in the order of the two `main`s, for every combination
of options. A program is an atom that parses or not and whose run returns, exits
or goes on; `Asm`, `OrtaVM` and `XBin` say what is inside. Opening a file may
fail, a write may run out of space where nobody looks at `fwrite`, `Interrupt`
may come between any two steps. `unpacked` is `UnbundledFiles`, the names by
which the cleanup removes.

`XLock` - what a mutex promises: one holder at a time, as often as he likes, and
a thread that ends takes its locks with it. `XOnce` - `call_once`, one action per
read or write of `status` and per call on its critical section. `XMutex` -
`EXTENDS XOnce`, whose function is `mtx_init`: `kOwner`, `kCount`, `abandoned`
are the kernel mutex or critical section as the code uses it (external), `owner`
and `count` the two atomic words of a recursive timed mutex, read and written in
actions of their own. `held` counts what a caller was told; `Lock == INSTANCE
XLock WITH depth <- held` is the abstract specification. `Die` ends a thread
between two calls. Callers unlock what they hold, but for `CarelessKinds`: for a
recursive timed mutex a stranger's unlock erases owner and count, for a critical
section it is undefined. `XCond` - the condition variable and the threads around
it, over the lock of `XLock`: takers wait in a loop, givers put an item under the
mutex and announce it with the mutex or after giving it back. `event` are the
two events; a critical section of `waiters_lock` is one step. `mishaps` is a
history variable that names the two ways in which a wake-up is lost.

`XStack_proofs`, `OrtaVM_proofs`, `Xd_proofs`, `XBin_proofs`, `Asm_proofs`,
`Toolchain_proofs`, `XMutex_proofs`, `XCond_proofs` - theorems (section 5).
`MCOrtaVM`, `MCXd`, `MCXBin`, `MCStd`, `MCAsm`,
`MCToolchain`, `MCXMutex`, `MCXCond` - programs and constants for TLC. `MCStd`
lays out `rb` of `std.x` as the assembler does (a label becomes a NOP).

## 3. Runs

| run | question | states |
|---|---|---|
| `control` | every program of up to four of nine control instructions: where can `ip` and the call stack go when both stacks overflow or run empty, do arguments arrive in order, do faults stop, do forward programs end? | 38 thousand |
| `data` | every data instruction on every pair of operand types, and every program of four variable instructions: are words well formed, are globals shielded, do rotations undo each other, is the program kept? | 107 thousand |
| `debugger` | every session of break, delete, step, continue, quit on programs of up to two instructions, and of three that begin with a `push`: is it a run of the machine, do breakpoints hold, is the list what was typed, does `continue` return? | 152 thousand |
| `xbin` | every program of the list saved, the file complete or cut at any field, read by either loader: what can be loaded? | 12 thousand |
| `asm` | every source of up to three of twenty-three lines, beside a file it may include, with one pass or two: what is accepted, do local labels keep apart, where do operands without a value come from, does it end? | 647 thousand |
| `toolchain` | every two commands in every directory, with failures, a full disk and interrupts: what do they leave behind, what runs beside what? | 4.7 million |
| `mutex` | three threads, every kind of mutex: is it a lock, is it made once, do calls return? | 75 thousand |
| `condvar` | two takers, a timed taker, three givers: is the count exact, are takers woken? | 113 thousand |
| `debugger_halt` | does `continue` end at a `halt`, as the help text says? No | violation |
| `xbin_numbers` | does bytecode keep the numbers of its source? No | violation |
| `std_rb` | does `rb` reserve n bytes? No | violation |
| `asm_mem` | does the assembler take `examples/mem.x`? No | violation |

The four violations are disagreements of the code with its own words:

1. `xd.c:133`: `continue` does not look at `halted`, and `halt` does not move
   `ip`, so "Continue execution until breakpoint or end" (`xd.c:272`) loops for
   ever on any program that reaches a `halt`.
2. `orta.h:2606` writes 128 to 255 as one unsigned byte and `orta.h:2889` reads
   it as signed: `push 200` is `push -56` in the `.xbin` that `orta` offers to
   run instead of the source (`orta.c:43-44`). 32768 to 65535 likewise.
3. `orta.h:1739`: `merge` puts a space between its strings, so `rb`, "returns rbx
   a string with n bytes" (`std.x:59-61`), returns 2n.
4. `asm.h:317`: the lexer has no token for `@` and the preprocessor puts nothing
   in its place, so `@w rax 0 charp` (`examples/mem.x:4`) is `w rax 0 charp` for
   the parser and the example is refused.

### Bounds, and why they are enough

- `Half = 8` (4-bit ints; 32 for `std_rb`, 64 for `asm`, 256 for `asm_mem`, since a
  text is shorter than the range of an address, `MaxText < Half`). Overflow, the smallest int, zero and
  every sign meet every operator; nothing depends on the width but `Wrap`.
- `StackCap` 1 to 4, `CallCap` 1 to 2: reached and exceeded by programs of the
  runs, which is the point; the theorems hold for all capacities.
- `MaxLen` 0 to 2 (8 for `std_rb`): strings matter by NULL, empty, longer.
- Programs of four control instructions contain a call into a call that
  overflows the call stack, its two returns, and a return too many; four
  variable instructions contain declare, toggle, assign, read in every order.
- `MaxBreakpoints = 3` is exceeded by a fourth `break`; three breakpoints are
  what a `memmove` of more than one entry needs.
- `Half1, Half2, Half, Half8 = 2, 8, 128, 32768`: bytes of two bits, with the
  code's 1, 2, 4 and 8 of them; the numbers are all those next to a border.

- `asm`: three lines hold a section with a local label and a jump to it with an
  include, a define or another section between them, and a define of a define with
  its two uses. `MaxIncludeDepth = 2` (5 in
  the code) is exceeded by a file that includes itself; `MaxText = 24` (8191) by
  a file that includes itself twice. Both are parameters of no other use.
  `MCAsm` also evaluates `NamesTellHere`, the hypothesis of `LocalLabelsStayApart`
  (section 5), for contexts that look like made names.
- `toolchain`: a second command is what meets the files a first one left; two
  entries of a bundle allow a failure after the first, and two of one name.
- `mutex`: with three threads one holds, one waits and one ends or gives up;
  `MaxHeld = 2` is recursion. The theorems hold for all numbers.
- `condvar`: three givers are what it takes to lose a wake-up in either way, with
  two takers and a timed one between them.

`CHECK_DEADLOCK FALSE` stands where the system really stops: a program, a
session or the user's commands end, the assembler has answered, threads are done
or wait for a thread that has ended or an item that never comes. Bytecode can always be saved or loaded again, so `xbin` checks
deadlock.

### Fairness

`FairSpec` adds `WF_vars(Next)`: `execute_program` is a loop of one thread that
does nothing but run instructions. `XdFairSpec` adds weak fairness for one turn
of the loop of `continue`; nothing is assumed of the user, who may never type
another command. `AsmFairSpec` adds `WF(AsmNext)`: the assembler is one thread in
loops of its own. `FairSpec` of `XMutex` adds weak fairness for each thread's
steps inside a call, which is what a scheduler gives; nothing is assumed of what
callers do between calls. `FairSpec` of `XCond` adds strong fairness for getting
the mutex, for it is taken and given back again and again and weak fairness
would let one thread be passed over for ever. Every other property is one of
safety and needs no fairness.

## 4. Properties

Each is stated beside its module with the behaviour it is about, and each is
paired in `PROJECT.json` with a plausible bug of the code that breaks it. The
ones worth a reader's time:

- `CallSites`, `ReturnsAfterCall`, `IpInProgram` speak of histories: a call that
  lost its return address, a return that pops an outer call's, and a return on
  an empty call stack still leave the machine at a place of the program.
- `FirstArgumentOnTop` relates the operands of a call to the stack of the callee.
- `LocalScopeShieldsGlobals`, `OnlyPointersAreCut` say what no instruction may
  do. The second records what the code does: a pointer operand is not the same
  the second time it is executed.
- `ForwardProgramsEnd`, `ContinueReturns` are liveness.
- `DebuggerRunsProgram` is the refinement of `OrtaVM`'s `Spec` by the debugger.
- `OnlyCompleteFilesLoad` and `LoadedAsSaved` say together what bytecode
  promises; `IntLoaded` in the second names exactly what is lost today.
- `AcceptedIsProgram` discharges the assumption of the machine's proofs: what
  the assembler accepts is an `IsProgram`, whatever lines it was fed and whatever
  the buffer left out, provided that it names its variables (`parse_operands`
  looks at no kind of operand and takes `var 1`). Its labels mark instructions of
  their own.
- `LocalNamesAreUnique`: a jump to `.l` reaches no other section's `.l`, with
  included files in between. `DepthIsNesting`: the counter that stops recursive
  includes is right on every path.
- `NullOperandsAreDefined`: an operand without a value, on which `strdup` crashes
  (`asm.h:668`), appears only where the last preprocessing has met a define or has
  filled its buffer. With `--nopreproc` any define may do that (`#define N -`). With
  two passes the defines of the source are gone by then, and it takes a define that
  the first pass has put there as the value of another: `#define N #define M -`,
  `N`, `push M` crashes the assembler.
- `ListIsWhatWasTyped` compares the debugger's list with what its user asked for:
  each `delete` takes the entry with the number typed and no other, whatever
  `memmove` has left in the array.
- `CommandsTidyUp` relates a directory to what it was when the command began,
  whatever failed. `RunsWhatWasBundled`: no program runs beside half a bundle,
  unless the disk was full, which `xbd` does not notice.
- `MutexIsLock` is the refinement of `XLock` by every kind of mutex;
  `MadeOnceBeforeUse` is `call_once`; `OwnersHold` ties the words of a recursive
  timed mutex to the kernel; `CallsReturn` is their liveness.
- `WakeUpsArrive` says that a taker for whom there is an item does not sleep on,
  with two exceptions that the code has: two signals that meet no sleeper become
  one, since `SetEvent` on a set event does nothing; and the last waiter of a
  broadcast resets the event after it has left the section, and wipes out a
  broadcast for those who came since. `cnd_timedwait` is not among them: it steals
  a signal, but it keeps the mutex while it waits, and shuts everybody out.
- `FlagsFit`: `add_flag` has no limit and stays within four by its test for
  duplicates alone, also for a program saved after a run, loaded and run again.

## 5. Proofs

All proofs are checked by TLAPS with Z3, Zenon and LS4, for all values of the
constants under the assumptions that the modules declare:

- words and machine: `Half` is above 1, `MaxLen` and the capacities are natural
  numbers, `rax`..`rdx` are registers, `"(ptr"` is a name, every program is well
  formed (`IsProgram`: known instructions with the argument counts of the
  instruction table, labels inside the program, fewer than `Half` instructions);
- `Xd`: addresses are natural numbers, indexes integers, `MaxBreakpoints` a natural number;
- `XBin`: each size has at least twice the range of the one before, and programs
  are those a machine may have to save (section 2);
- `Asm`: `MaxText < Half`, and `ProjectAssumption`, that files are made of marks
  (section 2);
- `Toolchain`: no program both returns and exits, data files have none of the four
  names of the tools, and a bundle names files other than bundles, of which it
  holds a number of whole ones;
- `XMutex`, `XCond`: `Nobody` is no thread, threads are finitely many, the roles in
  `XCond` are disjoint.

Every type invariant, safety invariant and action property that a passing run
checks is a theorem, and so are both refinements.

**The machine** (`OrtaVM_proofs`). The invariant is
`IInv == TypeOK /\ IpInProgram /\ CallSites /\ WellFormed`. None of the first
three is inductive alone: a `ret` sends `ip` to an address from the call stack,
so `IpInProgram` needs `CallSites`; `CallSites` needs the call to be recorded
while `ip` is in the program, and needs that nothing turns the recorded
instruction into another; that the types hold at all needs operands to fit their
instruction, and since `get_pointer` writes into operands that has to be an
invariant too, `WellFormed`. A program shorter than `Half` is needed for a return
address to survive the conversion to `int`. Most instructions are `Ordinary`:
they leave program, variables and call stack alone and end in one of six ways;
one lemma shows that an ordinary step keeps `IInv`, a lemma per instruction shows
that it is ordinary, and calls, returns, variables, the toggle, `free` and
external calls keep `IInv` by lemmas of their own.

From `Invariance` follow `TypeCorrect`, `IpStaysInProgram`,
`CallStackHoldsCalls`, `RetResumesBehindCall`, `FaultsStopTheLoop`,
`RotationsAreInverse`, `LocalScopesShield`, `CodeIsKept` and `ArgumentsInOrder`,
which state the checked properties of the same content.

**Debugger** (`Xd_proofs`). `XdIInv` is the machine's `IInv`, the types of the
list, and `AtHalt`: a session that has executed a `halt` stands before it. The
machine itself is stopped by then (`haltSeen` is its `halted`), so every later
step of the session must be a stutter of the machine, and the exit code must be
what the first `halt` left. `AtHalt` says that only this one `halt` is ever
executed again, with the exit code it already set. From it follow
`XdTypeCorrect`, `BreakpointsAreKept`, `DeleteTakesOne` (`Listed = wanted`, element by
element through the `memmove`) and the refinement `DebuggerImplementsMachine`, by one step per
command: a `step` and a turn of `continue` are one instruction of the machine, all
else is a stutter.

**Stacks and sequences** (`XStack_proofs`). What the operators on words and stacks
return, by element-wise reasoning; `RotRUndoesRotL` is the main result. For the
modules that build texts and files it has `Flat`, the body of `FlattenSeq`. That
is a recursive function, and the induction theorems of the TLA+ library take an
operator that the installed provers cannot instantiate. `InductionOnSet` states
induction for a *set* of numbers, from the least number outside it; the predicate
becomes `{n \in Nat : ...}`. With it `FlatJoins` gives the partial joins of a
flattened sequence, and `FlatIn` what holds of the whole when concatenation
keeps it.

**Bytecode** (`XBin_proofs`). Numbers first. `ChosenSizeFits`: the size of
`optimal_size` holds the number. `LoadersAgree`: the two loaders decode four bytes
differently, yet for every content of the file the `int` is the same, since a
whole turn of an int is no change (`WrapTurn`). `NumbersLoaded`: save and load
together are `IntLoaded`, for every number and either loader.

Then whole files. `IInv` is `BasicInv` (types), `FileInv` (what is on the disk is
a beginning of `Fields(program)`, the whole of it once a load has succeeded) and
`LoadInv`: the place of the reader determines what it has. After n operands of
instruction k, `at` is `ArgAt(program, k, n)`, the counters hold what is left, and
every instruction and operand read so far is the saved one (`Kept`); likewise for
labels. None of the checked properties is inductive without that tie between
place and content: a reader one field off would take a register for a count. The
lemmas on places (`InstrPlaces`, `ArgPlaces`, `LabelPlaces`) compute which field
stands where, from partial joins that only grow. From the invariant follow
`XBinTypeCorrect`, `CutFilesAreRefused`, `ProgramsComeBack`, `XcallFlagIsRight` and
`FourFlagsSuffice`, whose argument is that a list of different flags is no longer
than the set of their names.

**Assembler** (`Asm_proofs`). The invariant has a part for each question.

- `AsmInv` (`FramesOK`, `PlacesOK`, `TablesOK`): texts, tokens, defines and mappings
  hold only words of `TextWords`, and the calls of `preprocess_file` are nested as
  deep as `depth` says. `TextWords` is the least set that holds the words of the
  files and is closed under what preprocessing makes of words: names of local
  labels, a word with another word or a number behind it. That there is a least
  one is shown by stages (`StagesExist`, `ClosedExists`). From it
  `DepthCountsCalls`, without a hypothesis.
- `LocalLabelsStayApart`: the mappings of a section are numbered from 0, every name
  given out is a made one, and those given in this section are still mapped. Its
  hypothesis is `NamesTell`: a name made of a context of `TextWords` and a number
  tells both. What follows the last `__local_` is the number, so this is true of
  strings, but no installed prover reasons on their characters; TLC evaluates it
  for some contexts. In the code it needs names that fit the 128 bytes of
  `global_name`.
- `NullOperandsNeedDefines`: as long as this pass has met no define, the text of
  every active call of `preprocess_file` is `Clean`, which is to say that none of
  its marks gives an error token and none takes the rest of a line, or it fills its
  buffer (`CleanOK`). All calls are in the invariant, not only the innermost, for a
  caller goes on with what its callee leaves; `JoinClean` carries it over the seam.
  Only the round of the loop that writes a colon without its word breaks it, and
  that needs a full buffer. So the parser gets no error token unless there are
  defines, or `filled` (`StreamOK`).
- `AssembledIsProgram`: `CodeOK` (argument counts, kinds of operands, labels at
  instructions of their own in the order of the text) and `RoomOK` (instructions
  and tokens left are no more than the text may have marks, hence fewer than
  `Half`). Its hypothesis `NamesHold`, that `Names` holds `TextWords` and the signs
  that may stand as operands, but not `(ptr` among the words, is satisfied by the
  set of all strings of letters, digits, `_` and `.`, together with `NoWords`.

**Tools** (`Toolchain_proofs`). `IInv` says where a command can be and with which
options (`PlaceInv`), that a bundle names no bundle, so that unpacking one never
writes over it (`DiskInv`), that only files of the command differ from what they
were (`OthersSame`), what is gone at the end (`GoneAtEnd`), and, while unpacking,
that each listed file is there as bundled or was written again by a later entry
of its name (`UnpackInv`), without which a bundle with two entries of one name
would break the argument. From it follow `CommandsLeaveNoTrace`
(`CommandsTidyUp`) and `BundledFilesAreThere` (`RunsWhatWasBundled`), for any disk,
any bundle and any number of commands.

**Mutex** (`XMutex_proofs`). `IInv` says what holds at each place of each thread.
`OnceInv`: there is one winner of the exchange, and who joins finds a section
that is made. `MutexInv`: who was told that he holds the mutex owns it in the
kernel; the owner word names a living thread only if it is that holder, or about
to be one; the count is his. `MutexIsLock` alone is not inductive: that a stale
owner word never lets a second thread in needs the places between kernel and
words, and that the last release leaves nobody behind needs the count to be the
holder's. `CountInv` is the exact count of the kernel, while no thread has ended
with the mutex. From it: `MutexTypeCorrect`, `OnceIsOnce`, `OwnersAreHolders` and
the refinement `MutexImplementsLock`, for all numbers of threads and depths.

**Condition variable** (`XCond_proofs`). `IInv` adds to the exact count where each
thread has the mutex (`PlacesInv`), without which a timed waiter could be taken
for a registered one, and that one thread has it at a time. From it:
`CondTypeCorrect`, `CountOfWaiters`, `CondKeepsMutex`.

**Only model-checked**: liveness (`ForwardProgramsEnd`, `ContinueReturns`,
`AssemblyEnds`, `CallsReturn`, `WakeUpsArrive`), which is beyond the prover, and
the hypothesis `NamesTell` about strings, evaluated for some contexts. The four
violations of section 3 are counterexamples, with nothing to prove.

## 6. Not modelled, and why

- The heap: contents, addresses and the ownership of strings. Two words may hold
  one string and one of them free it (`mov`, `pop`, `dup`, variables); the model
  has values, and a fault only where the code dereferences NULL or overruns the
  buffers of `hmerge` and `sprintf`. An ownership model is a module of its own (below).
- Texts: what a format string asks for, what `eval` computes, what a string
  names are nondeterministic.
- Texts inside strings: a define that expands in a string, escapes, a string that is
  not closed and takes what follows it. Directives other than `#define` and
  `#include`, an `#include` and its name put together by defines, the tail of a
  number that is a define's name, a number with digits put behind it. Lines of
  comments and directives beyond the lexer's 255 characters.
- The length of names: a made name is cut at 127 bytes and a local label at 63 in
  its mapping (`asm.h:53`, `asm.h:455`), so that a long section name loses the number that tells
  its local labels apart.
- XThread on POSIX forwards to pthread. `thrd_*` and `tss_*` are one call of the
  system each. Failures of `WaitForMultipleObjects` and `SetEvent` on valid
  handles are left out.
- The REPL: a line becomes an instruction and is executed with `ip` at its end;
  a comment executes the last instruction again (`repl.c:178`). Its instructions
  are the machine's; no line of the repository says what it promises beyond.
- Allocators: address arithmetic without a user in the repository.
- Printing, colours, timing, the commands of `xd` that only print.
- `v1/`, the Nyva compiler, `fcfx`, `xtoa`, the editor files: see section 1.

## 7. Plan

The modules of the plan are written, and every safety property of the passing
runs is proved. What could follow:

1. `NamesTell` from a model of names as pairs, and with it the cut of long names;
2. that a program loaded from its bytecode meets the machine's `IsProgram`, as one
   from the assembler does: the two modules keep operands in forms of their own;
3. an ownership model of strings in words, registers and variables, and more of
   `std.x` on the machine (`pusha` and `popa`, `chooseLib` with its toggles), if a
   property of theirs earns its run.
