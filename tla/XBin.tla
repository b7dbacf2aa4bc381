-------------------------------- MODULE XBin --------------------------------
(***************************************************************************)
(* Bytecode files (src/src/orta.h): create_xbin writes the program of a    *)
(* machine, load_xbin and load_bytecode_from_memory read one back.         *)
(*                                                                         *)
(* A file is a sequence of fields, one for each piece the loaders read and *)
(* test by itself.  A string is one field with its length; line numbers    *)
(* and what a string says are left out.  A file can be cut after any       *)
(* field: cutting inside one fails the same read.                          *)
(***************************************************************************)
EXTENDS XWord, SequencesExt

CONSTANTS
    Half1, Half2, Half8,   \* half the range of 1, 2 and 8 bytes; Half is that of 4
    BinPrograms            \* the programs to save

ASSUME SizeAssumption ==
    /\ Half1 \in Nat \ {0} /\ Half2 \in Nat /\ Half8 \in Nat
    /\ 2 * Half1 <= Half2 /\ 2 * Half2 <= Half /\ 2 * Half <= Half8

----------------------------------------------------------------------------
(* Numbers.                                                                *)

Longs == (-Half8) .. (Half8 - 1)
Sizes == {1, 2, 4, 8}
HalfOf(size) == IF size = 1 THEN Half1 ELSE IF size = 2 THEN Half2
                ELSE IF size = 4 THEN Half ELSE Half8

\* optimal_size: signed for negative numbers, unsigned for the others.
FitsOneOver(x, size) == IF x < 0 THEN x >= -HalfOf(size) ELSE x <= 2 * HalfOf(size)
Fits(x, size) == IF x < 0 THEN x >= -HalfOf(size) ELSE x < 2 * HalfOf(size)
OptimalSize(x) == IF Fits(x, 1) THEN 1 ELSE IF Fits(x, 2) THEN 2
                  ELSE IF Fits(x, 4) THEN 4 ELSE 8

\* The bytes written for x, and bytes as a signed number.
BytesOf(x, size)   == IF x < 0 THEN x + 2 * HalfOf(size) ELSE x
SignedOf(b, size)  == IF b >= HalfOf(size) THEN b - 2 * HalfOf(size) ELSE b

\* load_xbin reads into an int64_t and extends the sign of 1 and 2 bytes.  For
\* 4 bytes it does not: ~0xFFFFFFFF is an unsigned 0.
FileNumberUnsigned(b, size) == IF size = 4 \/ size = 1 THEN b ELSE SignedOf(b, size)
FileNumber(b, size) == IF size = 4 THEN b ELSE SignedOf(b, size)
\* load_bytecode_from_memory reads signed whenever that is negative.
MemoryNumber(b, size) == SignedOf(b, size)

Loaders == {"file", "memory"}
NumberRead(loader, b, size) == IF loader = "file" THEN FileNumber(b, size)
                                                  ELSE MemoryNumber(b, size)

----------------------------------------------------------------------------
(* Programs and files.                                                     *)

RegOp(r)  == [kind |-> "reg", reg |-> r]
NumOp(x)  == [kind |-> "num", num |-> x]
TextOp(t) == [kind |-> "text", text |-> t]

\* add_flag appends to four bytes and tests no limit.
AddFlagTwice(flags, f) == Append(flags, f)
AddFlag(flags, f) == IF Contains(flags, f) THEN flags ELSE Append(flags, f)

\* set_flags
FlagOf(op) == CASE op \in {"push", "pop"} -> "stack"
                [] op \in {"alloc", "@r", "@w"} -> "memory"
                [] op = "xcall" -> "xcall"
                [] OTHER -> "none"
FlagInstrFallingThrough(flags, instr) ==
    IF FlagOf(instr.op) = "none" THEN flags
    ELSE IF FlagOf(instr.op) = "memory" THEN AddFlag(AddFlag(flags, "memory"), "xcall")
    ELSE AddFlag(flags, FlagOf(instr.op))
FlagInstr(flags, instr) ==
    IF FlagOf(instr.op) = "none" THEN flags ELSE AddFlag(flags, FlagOf(instr.op))
SetFlags(p) ==
    LET flagged[k \in 0 .. Len(p.code)] ==
            IF k = 0 THEN p.flags ELSE FlagInstr(flagged[k - 1], p.code[k])
    IN  flagged[Len(p.code)]

Field(kind, val) == [kind |-> kind, val |-> val]
OperandFields(o) ==
    CASE o.kind = "reg" -> <<Field("type", "R"), Field("register", o.reg)>>
      [] o.kind = "num" -> LET size == OptimalSize(o.num) IN
                           <<Field("type", "N"), Field("size", size),
                             Field("bytes", BytesOf(o.num, size))>>
      [] OTHER -> <<Field("type", "S"), Field("text", o.text)>>
InstrFields(i) == <<Field("opcode", i.op), Field("count", Len(i.args))>>
                    \o FlattenSeq([k \in 1 .. Len(i.args) |-> OperandFields(i.args[k])])
LabelFields(l) == <<Field("text", l.name), Field("address", l.address)>>
Fields(p) == <<Field("meta", SetFlags(p)), Field("text", "filename"), Field("count", Len(p.code))>>
               \o FlattenSeq([k \in 1 .. Len(p.code) |-> InstrFields(p.code[k])])
               \o <<Field("count", Len(p.labels))>>
               \o FlattenSeq([k \in 1 .. Len(p.labels) |-> LabelFields(p.labels[k])])

\* What a machine may have to save: four kinds of flags, each set once, and the
\* flag of xcall only for a program with one (the REPL saves a program again).
FlagNames == {"stack", "memory", "xcall", "external_library"}
Operands == [kind : {"reg"}, reg : STRING] \cup [kind : {"num"}, num : Longs]
              \cup [kind : {"text"}, text : STRING]
Instrs == [op : STRING, args : Seq(Operands)]
HasXcall(code) == \E k \in 1 .. Len(code) : code[k].op = "xcall"
IsProgram(p) ==
    /\ p \in [flags : Seq(FlagNames), code : Seq(Instrs),
              labels : Seq([name : STRING, address : Nat])]
    /\ IsInjective(p.flags) /\ (Contains(p.flags, "xcall") => HasXcall(p.code))

ASSUME ProgramAssumption == \A p \in BinPrograms : IsProgram(p)

----------------------------------------------------------------------------
VARIABLES
    program,   \* the program the file was last opened for
    file,      \* what is on the disk, <<>> for none or an empty one
    phase,     \* "idle", "writing", a stage of loading, or how a load ended
    loader,    \* which of the two loaders reads
    garbled,   \* the uninitialised bytes of `opcode` in the loaders are not 0
    at,        \* how many fields have been read
    wanted,    \* the counts read: of instructions, of labels, and of the operands
               \* of the current instruction still to come
    loaded     \* the program read so far

xbinVars == <<program, file, phase, loader, garbled, at, wanted, loaded>>

NoProgram == [flags |-> <<>>, code |-> <<>>, labels |-> <<>>]
Nothing   == [instrs |-> 0, operands |-> 0, labels |-> 0]

XBinInit == /\ program = NoProgram /\ file = <<>> /\ phase = "idle"
            /\ loader = "file" /\ garbled = FALSE
            /\ at = 0 /\ wanted = Nothing /\ loaded = NoProgram

Idle == phase \in {"idle", "loaded", "ran", "failed", "crashed"}
Reader == <<loader, garbled, at, wanted, loaded>>

\* fopen "wb" empties the file; when it fails the old file stays.
StartSave(p) == /\ Idle
                /\ program' = p /\ file' = <<>> /\ phase' = "writing"
                /\ loader' = "file" /\ garbled' = FALSE
                /\ at' = 0 /\ wanted' = Nothing /\ loaded' = NoProgram

WriteField == /\ phase = "writing" /\ Len(file) < Len(Fields(program))
              /\ file' = Append(file, Fields(program)[Len(file) + 1])
              /\ UNCHANGED <<program, phase, Reader>>

\* A write fails, or the process dies, or the last write of a full disk is the
\* one in fclose, whose answer create_xbin does not look at: what stdio still
\* held is lost.
SaveCut == /\ phase = "writing" /\ phase' = "idle"
           /\ \E n \in 0 .. Len(file) : /\ n < Len(Fields(program))
                                     /\ file' = SubSeq(file, 1, n)
           /\ UNCHANGED <<program, Reader>>

CloseSave == /\ phase = "writing" /\ Len(file) = Len(Fields(program))
             /\ phase' = "idle"
             /\ UNCHANGED <<program, file, Reader>>

----------------------------------------------------------------------------
(* The loaders.                                                            *)

StartLoad == /\ Idle
             /\ phase' = "header" /\ loader' \in Loaders /\ garbled' \in BOOLEAN
             /\ at' = 0 /\ wanted' = Nothing /\ loaded' = NoProgram
             /\ UNCHANGED <<program, file>>

Available(n) == at + n <= Len(file)
Next1 == file[at + 1].val
Next2 == file[at + 2].val
Next3 == file[at + 3].val

\* After an error the loader frees the instructions and labels it has read,
\* the operands through a wrong indirection and the instructions of a label by
\* the number of labels, and the caller frees the machine again.
LoadFails(outcomes) == /\ phase' \in outcomes
                       /\ UNCHANGED <<program, file, Reader>>
Broken == {"failed", "crashed"}

\* Once the new filename is in place and before there are instructions the
\* machine can be freed; before that its filename is freed twice.
ReadHeader ==
    /\ phase = "header"
    /\ \/ Len(file) = 2 /\ LoadFails({"failed"})
       \/ Len(file) < 2 /\ LoadFails(Broken)
       \/ /\ Available(3)
          /\ loaded' = [loaded EXCEPT !.flags = Next1]
          /\ wanted' = [wanted EXCEPT !.instrs = Next3]
          /\ at' = at + 3 /\ phase' = "program"
          /\ UNCHANGED <<program, file, loader, garbled>>

\* One byte is read into an `Instruction` that nothing has set.  An opcode
\* with other bytes than 0 above it is one execute_instruction does not know.
ReadInstruction ==
    /\ phase = "program" /\ wanted.operands = 0 /\ Len(loaded.code) < wanted.instrs
    /\ \/ ~Available(2) /\ LoadFails(Broken)
       \/ /\ Available(2)
          /\ loaded' = [loaded EXCEPT !.code =
                          Append(@, [op |-> IF garbled THEN "unknown" ELSE Next1, args |-> <<>>])]
          /\ wanted' = [wanted EXCEPT !.operands = Next2]
          /\ at' = at + 2
          /\ UNCHANGED <<program, file, phase, loader, garbled>>

FieldsOfType(t) == IF t = "N" THEN 3 ELSE 2
OperandRead == CASE Next1 = "R" -> RegOp(Next2)
                 [] Next1 = "N" -> NumOp(NumberRead(loader, Next3, Next2))
                 [] OTHER -> TextOp(Next2)
ReadOperand ==
    /\ phase = "program" /\ wanted.operands > 0
    /\ \/ (Available(1) => ~Available(FieldsOfType(Next1))) /\ LoadFails(Broken)
       \/ /\ Available(1) /\ Available(FieldsOfType(Next1))
          /\ loaded' = [loaded EXCEPT !.code[Len(loaded.code)].args = Append(@, OperandRead)]
          /\ wanted' = [wanted EXCEPT !.operands = @ - 1]
          /\ at' = at + FieldsOfType(Next1)
          /\ UNCHANGED <<program, file, phase, loader, garbled>>

AllInstrsRead == /\ phase = "program" /\ wanted.operands = 0
                 /\ Len(loaded.code) = wanted.instrs
ReadLabelCountLenient ==
    /\ AllInstrsRead /\ phase' = "labels"
    /\ \/ ~Available(1) /\ UNCHANGED <<at, wanted>>
       \/ Available(1) /\ at' = at + 1 /\ wanted' = [wanted EXCEPT !.labels = Next1]
    /\ UNCHANGED <<program, file, loader, garbled, loaded>>
ReadLabelCount ==
    /\ AllInstrsRead
    /\ \/ ~Available(1) /\ LoadFails(Broken)
       \/ /\ Available(1)
          /\ wanted' = [wanted EXCEPT !.labels = Next1]
          /\ at' = at + 1 /\ phase' = "labels"
          /\ UNCHANGED <<program, file, loader, garbled, loaded>>

ReadLabel ==
    /\ phase = "labels" /\ Len(loaded.labels) < wanted.labels
    /\ \/ ~Available(2) /\ LoadFails(Broken)
       \/ /\ Available(2)
          /\ loaded' = [loaded EXCEPT !.labels = Append(@, [name |-> Next1, address |-> Next2])]
          /\ at' = at + 2
          /\ UNCHANGED <<program, file, phase, loader, garbled, wanted>>

FinishLoad == /\ phase = "labels" /\ Len(loaded.labels) = wanted.labels
              /\ phase' = "loaded"
              /\ UNCHANGED <<program, file, Reader>>

\* execute_program on what was loaded; an xcall adds its flag to the machine.
RunLoaded == /\ phase = "loaded" /\ phase' = "ran"
             /\ \/ UNCHANGED loaded
                \/ /\ HasXcall(loaded.code)
                   /\ loaded' = [loaded EXCEPT !.flags = AddFlag(@, "external_library")]
             /\ UNCHANGED <<program, file, loader, garbled, at, wanted>>

Reading == \/ ReadHeader \/ ReadInstruction \/ ReadOperand \/ ReadLabelCount \/ ReadLabel
           \/ FinishLoad
XBinNext == \/ \E p \in BinPrograms : StartSave(p)
            \/ WriteField \/ SaveCut \/ CloseSave
            \/ StartLoad \/ Reading \/ RunLoaded
XBinSpec == XBinInit /\ [][XBinNext]_xbinVars

----------------------------------------------------------------------------
(* Properties.                                                             *)

\* The number of bytes optimal_size chooses holds the number, whatever its
\* sign, and the four flags of the header are enough.
XBinTypeOK ==
    /\ \A k \in 1 .. Len(file) :
          file[k].kind = "bytes" => file[k].val \in 0 .. (2 * HalfOf(file[k - 1].val) - 1)
    /\ at \in 0 .. Len(file)
    /\ phase \in {"idle", "writing", "header", "program", "labels", "loaded", "ran",
                  "failed", "crashed"}
    /\ loader \in Loaders /\ garbled \in BOOLEAN

\* add_flag never writes behind the four flags of the header, although it tests
\* no limit and the header of a file may come back from a run that added some.
FlagsFit == /\ Len(loaded.flags) <= 4
            /\ \A k \in 1 .. Len(file) : file[k].kind = "meta" => Len(file[k].val) <= 4

\* A file that lost its tail at any place, in a string, between two operands
\* or before the labels, is never taken for a program.
OnlyCompleteFilesLoad == phase \in {"loaded", "ran"} => file = Fields(program)

\* The `int` that atoi makes of a number that was saved and loaded: 128 .. 255
\* and 32768 .. 65535 fill a byte or two and come back negative.
IntLoaded(x) == IF x \in Half1 .. (2 * Half1 - 1) THEN x - 2 * Half1
                ELSE IF x \in Half2 .. (2 * Half2 - 1) THEN x - 2 * Half2
                ELSE Wrap(x)
OperandKept(saved, read) ==
    IF saved.kind = "num" THEN read.kind = "num" /\ Wrap(read.num) = IntLoaded(saved.num)
                          ELSE read = saved

\* What either loader hands to execute_program is the program that was saved:
\* every instruction with all its operands in order, and every label at its
\* address.  Only numbers with the top bit of one or two bytes differ, in the
\* same way for both loaders, and opcodes under garbage.
LoadedAsSaved ==
    phase = "loaded" =>
        /\ loaded.labels = program.labels
        /\ Len(loaded.code) = Len(program.code)
        /\ \A k \in 1 .. Len(program.code) :
              LET saved == program.code[k] read == loaded.code[k] IN
              /\ read.op = IF garbled THEN "unknown" ELSE saved.op
              /\ Len(read.args) = Len(saved.args)
              /\ \A j \in 1 .. Len(saved.args) : OperandKept(saved.args[j], read.args[j])

\* The comment on `Flags` tells a reader of a bytecode file to rely on the
\* flag of xcall: it is set when the program has one, run or only compiled.
XcallIsFlagged ==
    phase = "loaded" /\ ~garbled =>
        (Contains(loaded.flags, "xcall") <=> HasXcall(loaded.code))

\* The usage text of orta promises the same run for both: "example.x # Run
\* source with preprocessing", "example.xbin # Run pre-compiled bytecode".
BytecodeKeepsNumbers ==
    phase = "loaded" =>
        \A k \in 1 .. Len(program.code) : \A j \in 1 .. Len(program.code[k].args) :
            LET saved == program.code[k].args[j] read == loaded.code[k].args[j] IN
            saved.kind = "num" => Wrap(read.num) = Wrap(saved.num)

=============================================================================
