------------------------------ MODULE Toolchain ------------------------------
(***************************************************************************)
(* The commands a user gives one after the other in one directory: orta    *)
(* (src/src/orta.c) and the bundler xbd (src/src/xbd.c).  They meet in the *)
(* files they leave: F.x, the preprocessed F.pre.x, the bytecode F.xbin    *)
(* and the bundle.  Opening a file for writing may fail at any time, and   *)
(* the user may interrupt a command between any two steps.                 *)
(*                                                                         *)
(* What assembling, running, saving and loading do is in Asm, OrtaVM and   *)
(* XBin; here a program is an atom that parses or not, and whose run       *)
(* returns, leaves by exit(1) or a signal, or goes on for ever.            *)
(***************************************************************************)
EXTENDS Naturals, Sequences, FiniteSets

CONSTANTS
    Programs,      \* the programs a source file can hold
    Parse, Return, Exit,  \* those parse_program accepts; whose runs return; and are cut short
    DataFiles,     \* the other files of the directory
    Bundles,       \* the bundles that may have been brought here
    MaxCommands,   \* the commands the user gives
    MaxEntries     \* the files named in one bundle

ASSUME ToolchainAssumption == /\ Parse \subseteq Programs
                              /\ Return \cup Exit \subseteq Programs /\ Return \cap Exit = {}
                              /\ DataFiles \cap {"F.x", "F.pre.x", "F.xbin", "xbd.bundle"} = {}

Files == {"F.x", "F.pre.x", "F.xbin", "xbd.bundle"} \cup DataFiles

\* What a file can hold.  A file that was being written when its writer was
\* interrupted is cut: no loader takes it.
Source(p)   == [kind |-> "source", program |-> p]
Bytecode(p) == [kind |-> "bytecode", program |-> p]
Data(d)     == [kind |-> "data", of |-> d]
Cut         == [kind |-> "cut"]
\* A bundle holds the name of the main executable, the files, how many of them are
\* complete, and whether the name of the next one is.
Bundle(m, es, whole, named) ==
    [kind |-> "bundle", main |-> m, entries |-> es, whole |-> whole, named |-> named]

Names   == UNION {[1 .. n -> {"F.x", "F.xbin"} \cup DataFiles] : n \in 1 .. MaxEntries}

\* No bundle brought here holds a bundle: unpacking one leaves it as it is.
ASSUME BundleAssumption ==
    /\ MaxCommands \in Nat /\ MaxEntries \in Nat
    /\ \A b \in Bundles : /\ b.kind = "bundle" /\ Len(b.entries) \in Nat
                           /\ b.whole \in 0 .. Len(b.entries)
                           /\ \A k \in 1 .. Len(b.entries) :
                                 b.entries[k].name \in Files \ {"xbd.bundle"}

OrtaCommands == [tool : {"orta"}, file : {"F.x", "F.xbin"}, nopreproc : BOOLEAN,
                 keep : BOOLEAN, run : BOOLEAN, save : BOOLEAN]
XbdCommands  == [tool : {"bundle"}, files : Names, main : {"F.xbin"} \cup DataFiles]
                  \cup [tool : {"run", "list", "inspect"}]

VARIABLES
    disk,      \* the files of the directory
    before,    \* history: the files when the command began
    command,   \* the command at work, or the last one
    pc,        \* where it is, "idle" between two commands
    vm,        \* the program in the machine: "none", "broken" after a failed load
    unpacked,  \* UnbundledFiles: the names listed so far
    ending,    \* how the last command ended
    short,     \* history: a write has run out of space
    given      \* how many commands the user has given

vars == <<disk, before, command, pc, vm, unpacked, ending, short, given>>

Nothing  == [tool |-> "nothing"]
Exists(f) == f \in DOMAIN disk
Write(f, c) == disk' = [g \in DOMAIN disk \cup {f} |-> IF g = f THEN c ELSE disk[g]]
Remove(fs)  == disk' = [g \in DOMAIN disk \ fs |-> disk[g]]

\* fwrite into an open file: all of it, or what the disk has room for; only
\* create_xbin looks at the answer.
WriteOut(f, c) == \/ Write(f, c) /\ UNCHANGED short
                  \/ Write(f, Cut) /\ short' = TRUE
NoWrite == UNCHANGED <<disk, short>>

InitialDisk(p, b, existing) ==
    [f \in existing \cup DataFiles |->
       CASE f = "F.x" -> Source(p) [] f = "F.xbin" -> Bytecode(p)
         [] f = "xbd.bundle" -> b [] OTHER -> Data(f)]

Init == /\ \E p \in Programs, b \in Bundles,
              existing \in SUBSET {"F.x", "F.xbin", "F.pre.x", "xbd.bundle"} :
                 disk = InitialDisk(p, b, existing)
        /\ before = disk
        /\ command = Nothing /\ pc = "idle" /\ vm = "none" /\ unpacked = <<>>
        /\ ending = "none" /\ short = FALSE /\ given = 0

At(place) == pc = place
Goto(to)  == pc' = to /\ UNCHANGED <<before, command, ending, given>>
End(how)  == /\ pc' = "idle" /\ ending' = how
             /\ UNCHANGED <<before, command, given>>

Begin == /\ pc = "idle" /\ given < MaxCommands
         /\ \E c \in OrtaCommands \cup XbdCommands :
               /\ command' = c
               /\ pc' = CASE c.tool = "orta" -> "install" [] c.tool = "bundle" -> "bundle"
                          [] OTHER -> "open"
         /\ before' = disk /\ given' = given + 1
         /\ vm' = "none" /\ unpacked' = <<>> /\ ending' = "none"
         /\ NoWrite

----------------------------------------------------------------------------
(* orta.                                                                   *)

Preprocesses == command.file = "F.x" /\ ~command.nopreproc

\* install_std writes ~/.orta/std.x, outside the directory, before anything.
Install == /\ At("install")
           /\ \/ Goto(IF command.file = "F.xbin" THEN "load"
                   ELSE IF Preprocesses THEN "preprocess" ELSE "parse")
              \/ End("failed")
           /\ NoWrite /\ UNCHANGED <<vm, unpacked>>

AfterRun   == IF command.file = "F.x" /\ command.save THEN "save" ELSE "end"
AfterParse == IF command.run THEN "execute" ELSE AfterRun

\* A file cut short takes the clean-up path of load_xbin, on which the heap
\* may not survive: see XBin.
HoldsBytecode(f) == Exists(f) /\ disk[f].kind = "bytecode"
Load == /\ At("load")
        /\ \/ /\ HoldsBytecode("F.xbin") /\ vm' = disk["F.xbin"].program
              /\ Goto(AfterParse)
           \/ ~HoldsBytecode("F.xbin") /\ End("failed") /\ UNCHANGED vm
           \/ /\ Exists("F.xbin") /\ ~HoldsBytecode("F.xbin")
              /\ End("died") /\ UNCHANGED vm
        /\ NoWrite /\ UNCHANGED unpacked

\* orta_preprocess writes what parse_program will read: see Asm.
Preprocess == /\ At("preprocess")
              /\ \/ Exists("F.x") /\ WriteOut("F.pre.x", disk["F.x"]) /\ Goto("parse")
                 \/ End("failed") /\ NoWrite
              /\ UNCHANGED <<vm, unpacked>>

\* The programs parse_program can read; of a text that was cut, anything.
Input     == IF Preprocesses THEN "F.pre.x" ELSE "F.x"
IsWritten == Exists(Input) /\ disk[Input].kind = "source"
Parsed    == IF IsWritten THEN {disk[Input].program} \cap Parse
             ELSE IF Exists(Input) THEN Parse ELSE {}
ParseProgram ==
    /\ At("parse")
    /\ \/ /\ vm' \in Parsed
          /\ Goto(IF Preprocesses /\ ~command.keep THEN "unlink" ELSE AfterParse)
       \/ /\ ~IsWritten \/ Parsed = {}
          /\ End("failed") \/ (~Preprocesses /\ Exists(Input) /\ End("died"))
          /\ UNCHANGED vm
    /\ NoWrite /\ UNCHANGED unpacked

Unlink == /\ At("unlink")
          /\ Remove({"F.pre.x"}) /\ Goto(AfterParse)
          /\ UNCHANGED <<vm, unpacked, short>>

\* execute_program: back in main, or out of it by EERROR's exit or a signal.
\* xbd executes the machine whatever load_xbin has answered.
Execute == /\ At("execute")
           /\ \/ /\ vm \in Return \cup {"none", "broken"}
                 /\ Goto(IF command.tool = "run" THEN "remove" ELSE AfterRun)
              \/ vm \in Exit \cup {"broken"} /\ End("died")
           /\ NoWrite /\ UNCHANGED <<vm, unpacked>>

\* A bytecode file that cannot be opened or written is reported, and that is all.
Save == /\ At("save")
        /\ \/ Write("F.xbin", Cut) /\ Goto("saving") /\ UNCHANGED short
           \/ Goto("end") /\ NoWrite
        /\ UNCHANGED <<vm, unpacked>>
WriteBytecode == /\ At("saving")
                 /\ WriteOut("F.xbin", Bytecode(vm)) /\ Goto("end")
                 /\ UNCHANGED <<vm, unpacked>>

EndCommand == At("end") /\ End("ok") /\ NoWrite /\ UNCHANGED <<vm, unpacked>>

----------------------------------------------------------------------------
(* xbd bundle: all files are read before the bundle is opened.             *)

Entries  == [k \in 1 .. Len(command.files) |->
               [name |-> command.files[k], content |-> disk[command.files[k]]]]
Prefixes == {Cut} \cup {Bundle(command.main, Entries, whole, named) :
                          whole \in 0 .. (Len(Entries) - 1), named \in BOOLEAN}

\* Until it is closed the file holds some part of what was written.
OpenBundle == /\ At("bundle")
              /\ \/ /\ \A k \in 1 .. Len(command.files) : Exists(command.files[k])
                    /\ \E part \in Prefixes : Write("xbd.bundle", part) /\ UNCHANGED short
                    /\ Goto("bundling")
                 \/ End("failed") /\ NoWrite
              /\ UNCHANGED <<vm, unpacked>>
CloseBundle == /\ At("bundling")
               /\ \/ /\ Write("xbd.bundle",
                             Bundle(command.main, Entries, Len(Entries), FALSE))
                     /\ UNCHANGED short
                  \/ short' = TRUE /\ UNCHANGED disk
               /\ Goto("end") /\ UNCHANGED <<vm, unpacked>>

----------------------------------------------------------------------------
(* xbd run, list and inspect: all three unpack the bundle.                 *)

HoldsBundle == Exists("xbd.bundle") /\ disk["xbd.bundle"].kind = "bundle"
TheBundle   == disk["xbd.bundle"]

Open == /\ At("open")
        /\ \/ HoldsBundle /\ Goto("unpack")
           \/ End("failed")
        /\ NoWrite /\ UNCHANGED <<vm, unpacked>>

AtEntry   == Len(unpacked) + 1
NextEntry == TheBundle.entries[AtEntry]
IsWhole   == AtEntry <= TheBundle.whole
List      == unpacked' = Append(unpacked, NextEntry.name)

\* A file that cannot be opened is passed over.
OpenFailedGoesOn == "unpack"
OpenFailed       == "undo"
\* The file is listed, and written; opening it, or reading the bundle, fails.
Unpack ==
    /\ At("unpack") /\ AtEntry <= Len(TheBundle.entries)
    /\ \/ /\ IsWhole /\ List
          /\ \/ WriteOut(NextEntry.name, NextEntry.content) /\ Goto("unpack")
             \/ Goto(OpenFailed) /\ NoWrite
       \/ /\ ~IsWhole /\ Goto("undo")
          /\ IF TheBundle.named THEN List ELSE UNCHANGED unpacked
          /\ NoWrite
    /\ UNCHANGED vm

\* freeUnbundledFiles: every listed file is removed, whoever wrote it.
Listed == {unpacked[k] : k \in 1 .. Len(unpacked)}
\* ... but the list alone is freed.
UndoLeavesFiles == At("undo") /\ End("failed") /\ UNCHANGED disk
UndoUnpack      == At("undo") /\ End("failed") /\ Remove(Listed)
Undo == UndoUnpack /\ UNCHANGED <<vm, unpacked, short>>

IsProgramName(f) == f = "F.xbin"
LoadMain ==
    /\ At("unpack") /\ AtEntry > Len(TheBundle.entries)
    /\ IF command.tool = "list" \/ ~IsProgramName(TheBundle.main)
       THEN Goto("remove") /\ UNCHANGED vm
       ELSE /\ vm' = IF HoldsBytecode("F.xbin") THEN disk["F.xbin"].program
                     ELSE IF Exists("F.xbin") THEN "broken" ELSE "none"
            /\ \/ Goto(IF command.tool = "run" THEN "execute" ELSE "remove")
               \/ Exists("F.xbin") /\ ~HoldsBytecode("F.xbin") /\ End("died")
    /\ NoWrite /\ UNCHANGED unpacked
RemoveListed == /\ At("remove")
                /\ Remove(Listed) /\ Goto("end")
                /\ UNCHANGED <<vm, unpacked, short>>

----------------------------------------------------------------------------
\* The user's Ctrl-C
Interrupt == /\ pc # "idle" /\ End("killed")
             /\ NoWrite /\ UNCHANGED <<vm, unpacked>>

Orta == \/ Install \/ Load \/ Preprocess \/ ParseProgram \/ Unlink \/ Execute \/ Save \/ WriteBytecode
Xbd  == \/ OpenBundle \/ CloseBundle \/ Open \/ Unpack \/ Undo \/ LoadMain \/ RemoveListed
Next == Begin \/ Orta \/ Xbd \/ EndCommand \/ Interrupt
Spec == Init /\ [][Next]_vars

----------------------------------------------------------------------------
(* Properties.                                                             *)

Same(f) == /\ Exists(f) <=> f \in DOMAIN before
           /\ Exists(f) => disk[f] = before[f]

\* The files a command has to do with: what it writes, or what the bundle
\* names as far as it was read.
FilesOf == CASE command.tool = "orta" /\ command.file = "F.x" ->
                    (IF command.save THEN {"F.xbin"} ELSE {})
                      \cup (IF Preprocesses THEN {"F.pre.x"} ELSE {})
             [] command.tool = "bundle" -> {"xbd.bundle"}
             [] OTHER -> Listed

\* However far a command got, interrupted or failed, it has changed no other
\* file.  One that ended by itself leaves no file it unpacked, and the
\* preprocessed text only where it was asked to or the command failed.
CommandsTidyUp ==
    /\ \A f \in Files \ FilesOf : Same(f)
    /\ pc = "idle" /\ ending \in {"ok", "failed"} =>
          /\ command.tool \in {"run", "list", "inspect"} => Listed \cap DOMAIN disk = {}
          /\ command.tool = "orta" /\ ending = "ok" /\ Preprocesses /\ ~command.keep
                => ~Exists("F.pre.x")

\* xbd runs the machine only when every file of a complete bundle has been
\* written out: beside the program lies what was bundled with it, the last of
\* the files of one name.  Only a disk that was full can spoil it.
RunsWhatWasBundled ==
    pc = "execute" /\ command.tool = "run" /\ ~short =>
        /\ TheBundle.whole = Len(TheBundle.entries)
        /\ \A k \in 1 .. Len(TheBundle.entries) :
              LET e == TheBundle.entries[k] IN
                 \/ Exists(e.name) /\ disk[e.name] = e.content
                 \/ \E j \in (k + 1) .. Len(TheBundle.entries) : TheBundle.entries[j].name = e.name
=============================================================================
