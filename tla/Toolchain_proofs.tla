--------------------------- MODULE Toolchain_proofs ---------------------------
(***************************************************************************)
(* What the commands of orta and xbd leave in their directory, for all     *)
(* files, all bundles and any number of commands, with failures, full      *)
(* disks and interrupts.                                                   *)
(***************************************************************************)
EXTENDS Toolchain, SequenceTheorems, TLAPS

Unpackers == {"run", "list", "inspect"}
Unpackable == Files \ {"xbd.bundle"}

\* Which command is at which place, and what it was asked to do.
PlaceInv ==
    /\ pc \in {"install", "load", "preprocess", "parse", "unlink", "save", "saving"}
          => command.tool = "orta"
    /\ pc = "load" => command.file = "F.xbin"
    /\ pc \in {"preprocess", "unlink"} => Preprocesses
    /\ pc \in {"save", "saving"} => command.file = "F.x" /\ command.save
    /\ pc \in {"bundle", "bundling"} => command.tool = "bundle" /\ command.files \in Names
    /\ pc \in {"open", "unpack", "undo", "remove"} => command.tool \in Unpackers
    /\ pc = "execute" => command.tool \in {"orta", "run"}

\* A bundle names no bundle: unpacking one never writes over it.
BundleOK(b) == b.kind = "bundle" =>
    /\ Len(b.entries) \in Nat /\ b.whole \in 0 .. Len(b.entries)
    /\ \A k \in 1 .. Len(b.entries) : b.entries[k].name \in Unpackable
DiskInv == /\ Exists("xbd.bundle") => BundleOK(TheBundle)
           /\ unpacked \in Seq(Unpackable)
           /\ pc = "open" => unpacked = <<>>

\* Only files of the command differ from what they were.
OthersSame == \A f \in Files \ FilesOf : Same(f)

\* What a command that goes to its end has removed.
GoneAtEnd ==
    /\ pc = "end" /\ command.tool \in Unpackers => Listed \cap DOMAIN disk = {}
    /\ pc \in {"execute", "save", "saving", "end"} /\ command.tool = "orta"
          /\ Preprocesses /\ ~command.keep => ~Exists("F.pre.x")
    /\ pc = "idle" /\ ending \in {"ok", "failed"} =>
          /\ command.tool \in Unpackers => Listed \cap DOMAIN disk = {}
          /\ command.tool = "orta" /\ ending = "ok" /\ Preprocesses /\ ~command.keep
                => ~Exists("F.pre.x")

\* A file that is listed is there as it was bundled, or was written again.
IsUnpacked(k) == \/ /\ Exists(TheBundle.entries[k].name)
                    /\ disk[TheBundle.entries[k].name] = TheBundle.entries[k].content
                 \/ \E j \in (k + 1) .. Len(unpacked) :
                       TheBundle.entries[j].name = TheBundle.entries[k].name
Running   == pc = "execute" /\ command.tool = "run"
UnpackInv ==
    /\ pc = "unpack" \/ Running =>
          /\ HoldsBundle /\ Len(unpacked) <= TheBundle.whole
          /\ ~short => \A k \in 1 .. Len(unpacked) : IsUnpacked(k)
    /\ Running => Len(unpacked) = Len(TheBundle.entries)

TidyInv == PlaceInv /\ DiskInv /\ OthersSame /\ GoneAtEnd
IInv    == TidyInv /\ UnpackInv

----------------------------------------------------------------------------
(* The initial states.                                                     *)

LEMMA InitialBundle ==
  ASSUME Init PROVE Exists("xbd.bundle") => BundleOK(TheBundle)
  <1>1. PICK p \in Programs, b \in Bundles,
             existing \in SUBSET {"F.x", "F.xbin", "F.pre.x", "xbd.bundle"} :
                disk = InitialDisk(p, b, existing)
    BY Zenon DEF Init
  <1>2. Exists("xbd.bundle") => disk["xbd.bundle"] = b
    BY <1>1 DEF Exists, InitialDisk
  <1> QED
    BY <1>2, BundleAssumption DEF TheBundle, BundleOK, Unpackable

LEMMA InitIInv == Init => IInv
  <1> SUFFICES ASSUME Init PROVE IInv
    OBVIOUS
  <1>0. Exists("xbd.bundle") => BundleOK(TheBundle)
    BY InitialBundle
  <1> USE DEF Init, Nothing
  <1>1. PlaceInv
    BY DEF PlaceInv
  <1>2. DiskInv
    BY <1>0 DEF DiskInv
  <1>3. OthersSame
    BY DEF OthersSame, Same, Exists
  <1>4. GoneAtEnd
    BY DEF GoneAtEnd
  <1>5. UnpackInv
    BY DEF UnpackInv, Running
  <1> QED
    BY <1>1, <1>2, <1>3, <1>4, <1>5 DEF IInv, TidyInv

----------------------------------------------------------------------------
(* Files written and removed.                                              *)

LEMMA Written ==
  ASSUME NEW f, NEW c, Write(f, c)
  PROVE  /\ DOMAIN disk' = DOMAIN disk \cup {f} /\ disk'[f] = c
         /\ \A g \in DOMAIN disk \ {f} : disk'[g] = disk[g]
  BY DEF Write

LEMMA WrittenOut ==
  ASSUME NEW f, NEW c, WriteOut(f, c)
  PROVE  /\ DOMAIN disk' = DOMAIN disk \cup {f}
         /\ \/ disk'[f] = c /\ short' = short
            \/ disk'[f] = Cut /\ short' = TRUE
         /\ \A g \in DOMAIN disk \ {f} : disk'[g] = disk[g]
  <1>1. CASE Write(f, c) /\ short' = short
    BY <1>1, Written
  <1>2. CASE Write(f, Cut) /\ short' = TRUE
    BY <1>2, Written
  <1> QED
    BY <1>1, <1>2 DEF WriteOut

LEMMA Removed ==
  ASSUME NEW fs, Remove(fs)
  PROVE  /\ DOMAIN disk' = DOMAIN disk \ fs
         /\ \A g \in DOMAIN disk \ fs : disk'[g] = disk[g]
  BY DEF Remove

\* The bundle written last is one that a later command can read.
LEMMA EntriesAreUnpackable ==
  ASSUME command.files \in Names
  PROVE  /\ Len(Entries) \in Nat
         /\ \A k \in 1 .. Len(Entries) : Entries[k].name \in Unpackable
  <1> DEFINE Bundled == {"F.x", "F.xbin"} \cup DataFiles
  <1>1. PICK n \in 1 .. MaxEntries : command.files \in [1 .. n -> Bundled]
    BY DEF Names
  <1>2. n \in Nat /\ command.files \in Seq(Bundled)
    BY <1>1, BundleAssumption, SeqDef
  <1>3. Len(command.files) \in Nat /\ DOMAIN command.files = 1 .. Len(command.files)
    BY <1>2, LenProperties
  <1>4. /\ Len(Entries) = Len(command.files)
        /\ \A k \in 1 .. Len(command.files) : Entries[k].name = command.files[k]
    BY <1>3 DEF Entries
  <1>5. \A k \in 1 .. Len(command.files) : command.files[k] \in Bundled
    BY <1>1, <1>3
  <1>6. Bundled \subseteq Unpackable
    BY ToolchainAssumption DEF Unpackable, Files
  <1> QED
    BY <1>3, <1>4, <1>5, <1>6

----------------------------------------------------------------------------
(* The steps.                                                              *)

LEMMA PlaceKeeps == ASSUME PlaceInv, Next PROVE PlaceInv'
  <1> USE DEF PlaceInv, Goto, End, At
  <1>1. CASE Begin
    BY <1>1 DEF Begin, OrtaCommands, XbdCommands, Unpackers
  <1>2. CASE Install \/ Load
    BY <1>2 DEF Install, Load, AfterParse, AfterRun, Preprocesses
  <1>3. CASE Preprocess \/ ParseProgram \/ Unlink
    BY <1>3 DEF Preprocess, ParseProgram, Unlink, AfterParse, AfterRun, Preprocesses
  <1>4. CASE Execute \/ Save \/ WriteBytecode \/ EndCommand
    BY <1>4 DEF Execute, Save, WriteBytecode, EndCommand, AfterRun, Unpackers
  <1>5. CASE OpenBundle \/ CloseBundle \/ Open
    BY <1>5 DEF OpenBundle, CloseBundle, Open, Unpackers
  <1>6. CASE Unpack \/ Undo \/ LoadMain \/ RemoveListed \/ Interrupt
    BY <1>6 DEF Unpack, OpenFailed, Undo, UndoUnpack, LoadMain, RemoveListed, Interrupt
  <1> QED
    BY <1>1, <1>2, <1>3, <1>4, <1>5, <1>6 DEF Next, Orta, Xbd

\* What Unpack finds at its place in the bundle.
LEMMA AtNext ==
  ASSUME DiskInv, UnpackInv, pc = "unpack", AtEntry <= Len(TheBundle.entries)
  PROVE  /\ HoldsBundle /\ Len(unpacked) \in Nat
         /\ Len(TheBundle.entries) \in Nat /\ TheBundle.whole \in 0 .. Len(TheBundle.entries)
         /\ AtEntry \in 1 .. Len(TheBundle.entries)
         /\ NextEntry.name \in Unpackable
  <1>1. HoldsBundle /\ BundleOK(TheBundle) /\ TheBundle.kind = "bundle"
    BY DEF UnpackInv, DiskInv, HoldsBundle, TheBundle
  <1>2. Len(unpacked) \in Nat /\ Len(TheBundle.entries) \in Nat
    BY <1>1, LenProperties DEF DiskInv, BundleOK
  <1>3. AtEntry \in 1 .. Len(TheBundle.entries)
    BY <1>2 DEF AtEntry
  <1> QED
    BY <1>1, <1>2, <1>3 DEF BundleOK, NextEntry

LEMMA ListedAppend ==
  ASSUME NEW f \in Unpackable, unpacked \in Seq(Unpackable), unpacked' = Append(unpacked, f)
  PROVE  Listed' = Listed \cup {f}
  <1>1. /\ Len(unpacked) \in Nat /\ Len(unpacked') = Len(unpacked) + 1
        /\ \A k \in 1 .. Len(unpacked) : unpacked'[k] = unpacked[k]
        /\ unpacked'[Len(unpacked) + 1] = f
    BY AppendProperties, LenProperties
  <1>2. ASSUME NEW g PROVE g \in Listed' <=> g \in Listed \cup {f}
    BY <1>1 DEF Listed
  <1> QED
    BY <1>2

LEMMA DiskKeeps == ASSUME PlaceInv, DiskInv, UnpackInv, Next PROVE DiskInv'
  <1> USE DEF At, Goto, End
  <1>1. ASSUME UNCHANGED disk PROVE (Exists("xbd.bundle") => BundleOK(TheBundle))'
    BY <1>1 DEF DiskInv, Exists, TheBundle, BundleOK
  <1>2. ASSUME NEW f \in Unpackable, NEW c, WriteOut(f, c)
        PROVE  (Exists("xbd.bundle") => BundleOK(TheBundle))'
    <2>1. /\ Exists("xbd.bundle")' <=> Exists("xbd.bundle")
          /\ Exists("xbd.bundle") => disk'["xbd.bundle"] = disk["xbd.bundle"]
      BY <1>2, WrittenOut DEF Exists, Unpackable
    <2> QED
      BY <2>1 DEF DiskInv, TheBundle, BundleOK
  <1>3. ASSUME NEW fs, Remove(fs) PROVE (Exists("xbd.bundle") => BundleOK(TheBundle))'
    <2>1. /\ Exists("xbd.bundle")' => Exists("xbd.bundle")
          /\ Exists("xbd.bundle")' => disk'["xbd.bundle"] = disk["xbd.bundle"]
      BY <1>3, Removed DEF Exists
    <2> QED
      BY <2>1 DEF DiskInv, TheBundle, BundleOK
  <1>4. CASE Begin
    BY <1>1, <1>4 DEF Begin, NoWrite, DiskInv
  <1>5. CASE Install \/ Load \/ ParseProgram \/ Execute \/ EndCommand \/ Open \/ LoadMain \/ Interrupt
    <2>1. UNCHANGED <<disk, unpacked>> /\ (pc' = "open" => pc = "open")
      BY <1>5 DEF Install, Load, ParseProgram, Execute, EndCommand, Open, LoadMain, Interrupt,
           NoWrite, AfterParse, AfterRun
    <2> QED
      BY <1>1, <2>1 DEF DiskInv
  <1>6. CASE Preprocess \/ Save \/ WriteBytecode
    <2>1. \/ \E f \in {"F.pre.x", "F.xbin"} : \E c : WriteOut(f, c)
          \/ UNCHANGED disk
      BY <1>6 DEF Preprocess, Save, WriteBytecode, WriteOut, NoWrite
    <2>2. {"F.pre.x", "F.xbin"} \subseteq Unpackable
      BY DEF Unpackable, Files
    <2>3. UNCHANGED unpacked /\ pc' # "open"
      BY <1>6 DEF Preprocess, Save, WriteBytecode
    <2> QED
      BY <1>1, <1>2, <2>1, <2>2, <2>3 DEF DiskInv
  <1>7. CASE OpenBundle \/ CloseBundle
    <2>1. UNCHANGED unpacked /\ pc' # "open" /\ command.files \in Names
      BY <1>7 DEF OpenBundle, CloseBundle, PlaceInv
    <2>2. ASSUME NEW part \in Prefixes \cup {Bundle(command.main, Entries, Len(Entries), FALSE)},
                 Write("xbd.bundle", part)
          PROVE  BundleOK(TheBundle)'
      <3>1. BundleOK(part)
        BY <2>1, EntriesAreUnpackable DEF Prefixes, Bundle, Cut, BundleOK
      <3>2. TheBundle' = part
        BY <2>2, Written DEF TheBundle
      <3> QED
        BY <3>1, <3>2 DEF BundleOK
    <2>3. \/ UNCHANGED disk
          \/ \E part \in Prefixes \cup {Bundle(command.main, Entries, Len(Entries), FALSE)} :
                Write("xbd.bundle", part)
      BY <1>7 DEF OpenBundle, CloseBundle, NoWrite
    <2> QED
      BY <1>1, <2>1, <2>2, <2>3 DEF DiskInv
  <1>8. CASE Unlink \/ Undo \/ RemoveListed
    <2>1. UNCHANGED unpacked /\ pc' # "open" /\ (\E fs : Remove(fs))
      BY <1>8 DEF Unlink, Undo, UndoUnpack, RemoveListed, AfterParse, AfterRun
    <2> QED
      BY <1>3, <2>1 DEF DiskInv
  <1>9. CASE Unpack
    <2>1. NextEntry.name \in Unpackable
      BY <1>9, AtNext DEF Unpack
    <2>2. UNCHANGED disk \/ WriteOut(NextEntry.name, NextEntry.content)
      BY <1>9 DEF Unpack, NoWrite
    <2>3. unpacked' = unpacked \/ unpacked' = Append(unpacked, NextEntry.name)
      BY <1>9 DEF Unpack, List
    <2>4. unpacked' \in Seq(Unpackable)
      BY <2>1, <2>3, AppendProperties DEF DiskInv
    <2>5. pc' # "open"
      BY <1>9 DEF Unpack, OpenFailed
    <2> QED
      BY <1>1, <1>2, <2>1, <2>2, <2>4, <2>5 DEF DiskInv
  <1> QED
    BY <1>4, <1>5, <1>6, <1>7, <1>8, <1>9 DEF Next, Orta, Xbd

LEMMA SameKeeps == ASSUME PlaceInv, DiskInv, OthersSame, UnpackInv, Next PROVE OthersSame'
  <1> USE DEF At, Goto, End
  <1>1. CASE Begin
    BY <1>1 DEF Begin, NoWrite, OthersSame, Same, Exists
  <1>2. ASSUME UNCHANGED <<command, before>>, FilesOf \subseteq FilesOf',
               DOMAIN disk \ FilesOf' = DOMAIN disk' \ FilesOf',
               \A f \in DOMAIN disk \ FilesOf' : disk'[f] = disk[f]
        PROVE  OthersSame'
    BY <1>2 DEF OthersSame, Same, Exists
  <1>3. ASSUME UNCHANGED <<command, unpacked>> PROVE FilesOf' = FilesOf
    BY <1>3 DEF FilesOf, Preprocesses, Listed
  <1>4. CASE \/ Install \/ Load \/ ParseProgram \/ Execute \/ EndCommand \/ Open \/ LoadMain
             \/ Interrupt
    <2>1. UNCHANGED <<command, before, unpacked, disk>>
      BY <1>4 DEF Install, Load, ParseProgram, Execute, EndCommand, Open, LoadMain, Interrupt,
           NoWrite
    <2> QED
      BY <1>2, <1>3, <2>1
  <1>5. ASSUME NEW f \in FilesOf, NEW c, UNCHANGED <<command, before, unpacked>>,
               UNCHANGED disk \/ WriteOut(f, c)
        PROVE  OthersSame'
    <2>1. CASE UNCHANGED disk
      BY <1>2, <1>3, <1>5, <2>1
    <2>2. CASE WriteOut(f, c)
      <3>1. /\ DOMAIN disk' = DOMAIN disk \cup {f}
            /\ \A g \in DOMAIN disk \ {f} : disk'[g] = disk[g]
        BY <2>2, WrittenOut
      <3> QED
        BY <1>2, <1>3, <1>5, <3>1
    <2> QED
      BY <1>5, <2>1, <2>2
  <1>6. ASSUME NEW fs, fs \subseteq FilesOf, UNCHANGED <<command, before, unpacked>>, Remove(fs)
        PROVE  OthersSame'
    BY <1>2, <1>3, <1>6, Removed
  <1>7. CASE Preprocess
    <2>1. "F.pre.x" \in FilesOf /\ UNCHANGED <<command, before, unpacked>>
      BY <1>7 DEF Preprocess, PlaceInv, FilesOf, Preprocesses
    <2>2. UNCHANGED disk \/ WriteOut("F.pre.x", disk["F.x"])
      BY <1>7 DEF Preprocess, NoWrite
    <2> QED
      BY <1>5, <2>1, <2>2
  <1>8. CASE Unlink
    <2>1. "F.pre.x" \in FilesOf /\ UNCHANGED <<command, before, unpacked>>
      BY <1>8 DEF Unlink, PlaceInv, FilesOf, Preprocesses
    <2> QED
      BY <1>6, <1>8, <2>1 DEF Unlink
  <1>9. CASE Save \/ WriteBytecode
    <2>1. "F.xbin" \in FilesOf /\ UNCHANGED <<command, before, unpacked>>
      BY <1>9 DEF Save, WriteBytecode, PlaceInv, FilesOf
    <2>2. UNCHANGED disk \/ \E c : WriteOut("F.xbin", c)
      BY <1>9 DEF Save, WriteBytecode, NoWrite, WriteOut
    <2> QED
      BY <1>5, <2>1, <2>2
  <1>10. CASE OpenBundle \/ CloseBundle
    <2>1. "xbd.bundle" \in FilesOf /\ UNCHANGED <<command, before, unpacked>>
      BY <1>10 DEF OpenBundle, CloseBundle, PlaceInv, FilesOf
    <2>2. UNCHANGED disk \/ \E c : WriteOut("xbd.bundle", c)
      BY <1>10 DEF OpenBundle, CloseBundle, NoWrite, WriteOut
    <2> QED
      BY <1>5, <2>1, <2>2
  <1>11. CASE Undo \/ RemoveListed
    <2>1. FilesOf = Listed /\ UNCHANGED <<command, before, unpacked>>
      BY <1>11 DEF Undo, UndoUnpack, RemoveListed, PlaceInv, FilesOf, Unpackers
    <2> QED
      BY <1>6, <1>11, <2>1 DEF Undo, UndoUnpack, RemoveListed
  <1>12. CASE Unpack
    <2>1. /\ UNCHANGED <<command, before>>
          /\ FilesOf = Listed /\ FilesOf' = Listed'
      BY <1>12 DEF Unpack, PlaceInv, FilesOf, Unpackers
    <2>2. unpacked' = unpacked \/ unpacked' = Append(unpacked, NextEntry.name)
      BY <1>12 DEF Unpack, List
    <2>3. NextEntry.name \in Unpackable /\ unpacked \in Seq(Unpackable)
      BY <1>12, AtNext DEF Unpack, DiskInv
    <2>4. Listed' = Listed \/ Listed' = Listed \cup {NextEntry.name}
      BY <2>2, <2>3, ListedAppend DEF Listed
    <2>5. UNCHANGED disk \/ (WriteOut(NextEntry.name, NextEntry.content)
                             /\ unpacked' = Append(unpacked, NextEntry.name))
      BY <1>12 DEF Unpack, NoWrite, List
    <2>6. CASE UNCHANGED disk
      BY <1>2, <2>1, <2>4, <2>6
    <2>7. CASE WriteOut(NextEntry.name, NextEntry.content) /\ Listed' = Listed \cup {NextEntry.name}
      BY <1>2, <2>1, <2>7, WrittenOut
    <2> QED
      BY <2>3, <2>5, <2>6, <2>7, ListedAppend
  <1> QED
    BY <1>1, <1>4, <1>7, <1>8, <1>9, <1>10, <1>11, <1>12 DEF Next, Orta, Xbd

LEMMA GoneKeeps ==
  ASSUME PlaceInv, DiskInv, GoneAtEnd, Next PROVE GoneAtEnd'
  <1> USE DEF At, Goto, End
  <1>1. CASE Begin
    BY <1>1 DEF Begin, GoneAtEnd
  <1>2. ASSUME UNCHANGED <<command, unpacked>>
        PROVE  UNCHANGED <<Preprocesses, Listed>>
    BY <1>2 DEF Preprocesses, Listed
  <1>3. CASE Install \/ Load \/ ParseProgram \/ Execute \/ EndCommand
    <2>1. UNCHANGED <<command, unpacked, disk, Preprocesses, Listed>>
      BY <1>2, <1>3 DEF Install, Load, ParseProgram, Execute, EndCommand, NoWrite
    <2> QED
      BY <1>3, <2>1 DEF Install, Load, ParseProgram, Execute, EndCommand, AfterParse, AfterRun,
           GoneAtEnd, PlaceInv, Exists, Unpackers, Preprocesses
  <1>4. CASE Preprocess
    BY <1>4 DEF Preprocess, GoneAtEnd, PlaceInv, Unpackers
  <1>5. CASE Unlink
    <2>1. ~Exists("F.pre.x")'
      BY <1>5, Removed DEF Unlink, Exists
    <2> QED
      BY <1>5, <2>1 DEF Unlink, AfterParse, AfterRun, GoneAtEnd, PlaceInv, Unpackers
  <1>6. CASE Save \/ WriteBytecode
    <2>1. UNCHANGED <<command, unpacked, Preprocesses, Listed>>
      BY <1>2, <1>6 DEF Save, WriteBytecode
    <2>2. Exists("F.pre.x")' <=> Exists("F.pre.x")
      <3>1. UNCHANGED disk \/ \E c : WriteOut("F.xbin", c)
        BY <1>6 DEF Save, WriteBytecode, NoWrite, WriteOut
      <3>2. ASSUME NEW c, WriteOut("F.xbin", c)
            PROVE  "F.pre.x" \in DOMAIN disk' <=> "F.pre.x" \in DOMAIN disk
        <4>1. DOMAIN disk' = DOMAIN disk \cup {"F.xbin"}
          BY <3>2, WrittenOut
        <4> QED
          BY <4>1
      <3> QED
        BY <3>1, <3>2 DEF Exists
    <2> QED
      BY <1>6, <2>1, <2>2 DEF Save, WriteBytecode, GoneAtEnd, PlaceInv, Unpackers
  <1>7. CASE OpenBundle \/ CloseBundle \/ Interrupt \/ Unpack
    BY <1>7 DEF OpenBundle, CloseBundle, Interrupt, Unpack, OpenFailed, GoneAtEnd, PlaceInv, Unpackers
  <1>8. CASE Open \/ LoadMain
    <2>1. unpacked = <<>> => Listed = {}
      BY DEF Listed
    <2>2. UNCHANGED <<command, unpacked, Listed, disk>> /\ command.tool \in Unpackers
      BY <1>2, <1>8 DEF Open, LoadMain, PlaceInv, NoWrite
    <2>3. pc' = "idle" /\ ending' \in {"ok", "failed"} => unpacked = <<>>
      BY <1>8 DEF Open, LoadMain, DiskInv
    <2>4. pc' # "end"
      BY <1>8 DEF Open, LoadMain
    <2> QED
      BY <2>1, <2>2, <2>3, <2>4 DEF GoneAtEnd, Unpackers
  <1>9. CASE Undo \/ RemoveListed
    <2>1. UNCHANGED <<command, Listed>> /\ Remove(Listed) /\ command.tool \in Unpackers
      BY <1>2, <1>9 DEF Undo, UndoUnpack, RemoveListed, PlaceInv
    <2>2. (Listed \cap DOMAIN disk = {})'
      BY <2>1, Removed
    <2> QED
      BY <2>1, <2>2 DEF GoneAtEnd, Unpackers
  <1> QED
    BY <1>1, <1>3, <1>4, <1>5, <1>6, <1>7, <1>8, <1>9 DEF Next, Orta, Xbd

\* A step that leaves the bundle, the list and the disk alone, or one that
\* writes the next file of the bundle.
LEMMA UnpackKeeps ==
  ASSUME TidyInv, UnpackInv, Next PROVE UnpackInv'
  <1> USE DEF At, Goto, End
  <1>1. CASE pc' # "unpack" /\ ~Running'
    BY <1>1 DEF UnpackInv
  <1>2. ASSUME UNCHANGED <<disk, unpacked, short, command>>
        PROVE  UNCHANGED <<HoldsBundle, TheBundle>> /\ \A k : IsUnpacked(k)' <=> IsUnpacked(k)
    BY <1>2 DEF HoldsBundle, TheBundle, Exists, IsUnpacked
  <1>3. CASE Open
    <2>1. UNCHANGED <<disk, unpacked, short, command>> /\ unpacked = <<>>
      BY <1>3 DEF Open, NoWrite, TidyInv, DiskInv
    <2>2. CASE pc' = "unpack"
      <3>1. HoldsBundle' /\ TheBundle'.whole >= 0
        BY <1>3, <2>2, <1>2, <2>1 DEF Open, TidyInv, DiskInv, BundleOK, HoldsBundle, TheBundle
      <3>2. Len(unpacked') = 0
        BY <2>1
      <3> QED
        BY <2>2, <3>1, <3>2 DEF UnpackInv, Running
    <2> QED
      BY <1>1, <1>3, <2>2 DEF Open, Running
  <1>4. CASE LoadMain
    <2>1. UNCHANGED <<disk, unpacked, short, command>>
      BY <1>4 DEF LoadMain, NoWrite
    <2>2. HoldsBundle /\ BundleOK(TheBundle) /\ TheBundle.kind = "bundle" /\ Len(unpacked) \in Nat
      BY <1>4, LenProperties DEF LoadMain, UnpackInv, TidyInv, DiskInv, HoldsBundle, TheBundle
    <2>3. Len(unpacked) = Len(TheBundle.entries)
      BY <1>4, <2>2 DEF LoadMain, UnpackInv, BundleOK, AtEntry
    <2> QED
      BY <1>2, <1>4, <2>1, <2>3 DEF LoadMain, UnpackInv, Running
  <1>5. CASE Unpack
    <2> SUFFICES ASSUME pc' = "unpack" PROVE UnpackInv'
      BY <1>1, <1>5 DEF Unpack, OpenFailed, Running
    <2> DEFINE f == NextEntry.name
    <2>1. /\ IsWhole /\ unpacked' = Append(unpacked, f)
          /\ WriteOut(f, NextEntry.content)
      BY <1>5 DEF Unpack, OpenFailed, List
    <2>2. /\ HoldsBundle /\ Len(unpacked) \in Nat
          /\ Len(TheBundle.entries) \in Nat /\ TheBundle.whole \in 0 .. Len(TheBundle.entries)
          /\ AtEntry \in 1 .. Len(TheBundle.entries)
          /\ f \in Unpackable
      BY <1>5, AtNext DEF Unpack, TidyInv
    <2>3. Len(unpacked') = AtEntry
      BY <2>1, <2>2, AppendProperties DEF TidyInv, DiskInv, AtEntry
    <2>4. TheBundle' = TheBundle /\ HoldsBundle'
      BY <2>1, <2>2, WrittenOut DEF TheBundle, HoldsBundle, Exists, Unpackable
    <2>5. Len(unpacked') <= TheBundle'.whole
      BY <2>1, <2>3, <2>4 DEF IsWhole
    <2>6. /\ DOMAIN disk' = DOMAIN disk \cup {f}
          /\ \/ disk'[f] = NextEntry.content /\ short' = short
             \/ disk'[f] = Cut /\ short' = TRUE
          /\ \A g \in DOMAIN disk \ {f} : disk'[g] = disk[g]
      <3> HIDE DEF f
      <3> QED
        BY <2>1, WrittenOut, Zenon
    <2>7. ASSUME ~short', NEW k \in 1 .. Len(unpacked') PROVE IsUnpacked(k)'
      <3>1. f \in DOMAIN disk' /\ disk'[f] = NextEntry.content /\ short' = short
        BY <2>7, <2>6
      <3>2. CASE k = AtEntry
        BY <2>4, <3>1, <3>2 DEF IsUnpacked, Exists, NextEntry
      <3>3. CASE k # AtEntry
        <4>1. k \in 1 .. Len(unpacked) /\ IsUnpacked(k)
          BY <1>5, <2>2, <2>3, <2>7, <3>1, <3>3 DEF Unpack, UnpackInv, AtEntry
        <4> DEFINE g == TheBundle.entries[k].name
        <4>2. CASE g = f
          <5>1. AtEntry \in (k + 1) .. Len(unpacked')
            BY <2>2, <2>3, <4>1 DEF AtEntry
          <5> QED
            BY <2>4, <4>2, <5>1 DEF IsUnpacked, NextEntry
        <4>3. CASE g # f /\ Exists(g) /\ disk[g] = TheBundle.entries[k].content
          BY <2>4, <2>6, <4>3 DEF IsUnpacked, Exists
        <4>4. CASE \E j \in (k + 1) .. Len(unpacked) : TheBundle.entries[j].name = g
          <5>1. \A j \in (k + 1) .. Len(unpacked) : j \in (k + 1) .. Len(unpacked')
            BY <2>2, <2>3, <4>1 DEF AtEntry
          <5> QED
            BY <2>4, <4>4, <5>1 DEF IsUnpacked
        <4> QED
          BY <4>1, <4>2, <4>3, <4>4 DEF IsUnpacked
      <3> QED
        BY <3>2, <3>3
    <2> QED
      BY <2>4, <2>5, <2>7 DEF UnpackInv, Running
  <1>6. CASE ~Open /\ ~LoadMain /\ ~Unpack
    <2>1. pc' # "unpack"
      BY <1>6 DEF Next, Orta, Xbd, Begin, Install, Load, Preprocess, ParseProgram, Unlink, Execute,
           Save, WriteBytecode, EndCommand, OpenBundle, CloseBundle, Undo, UndoUnpack,
           RemoveListed, Interrupt, AfterParse, AfterRun
    <2>2. ~Running'
      <3>1. command'.tool = "run" => pc' # "execute"
        BY <1>6 DEF Next, Orta, Xbd, Begin, Install, Load, Preprocess, ParseProgram, Unlink, Execute,
             Save, WriteBytecode, EndCommand, OpenBundle, CloseBundle, Undo, UndoUnpack,
             RemoveListed, Interrupt, AfterParse, AfterRun, TidyInv, PlaceInv
      <3> QED
        BY <3>1 DEF Running
    <2> QED
      BY <1>1, <2>1, <2>2
  <1> QED
    BY <1>3, <1>4, <1>5, <1>6

LEMMA StutterKeeps == ASSUME IInv, UNCHANGED vars PROVE IInv'
  <1> USE DEF vars
  <1>1. PlaceInv'
    BY DEF IInv, TidyInv, PlaceInv, Preprocesses, Names
  <1>2. DiskInv'
    BY DEF IInv, TidyInv, DiskInv, Exists, TheBundle
  <1>3. OthersSame'
    BY DEF IInv, TidyInv, OthersSame, FilesOf, Same, Exists, Preprocesses, Listed
  <1>4. GoneAtEnd'
    BY DEF IInv, TidyInv, GoneAtEnd, Listed, Exists, Preprocesses
  <1>5. UnpackInv'
    BY DEF IInv, UnpackInv, Running, HoldsBundle, Exists, TheBundle, IsUnpacked
  <1> QED
    BY <1>1, <1>2, <1>3, <1>4, <1>5 DEF IInv, TidyInv

\* What every command keeps at every place: where it is and what it was asked,
\* the files it has to do with, and which of them it has put there or removed.
THEOREM ToolchainInvariance == Spec => []IInv
  <1>1. ASSUME IInv, [Next]_vars PROVE IInv'
    <2>1. CASE Next
      BY <1>1, <2>1, PlaceKeeps, DiskKeeps, SameKeeps, GoneKeeps, UnpackKeeps DEF IInv, TidyInv
    <2>2. CASE UNCHANGED vars
      BY <1>1, <2>2, StutterKeeps
    <2> QED
      BY <1>1, <2>1, <2>2
  <1> QED
    BY InitIInv, <1>1, PTL DEF Spec

\* However far a command got, interrupted, failed or out of space, it has
\* changed no file that it has nothing to do with, and a command that ended by
\* itself has removed what it unpacked and, if it was not told to keep it, the
\* preprocessed text.
THEOREM CommandsLeaveNoTrace == Spec => []CommandsTidyUp
  <1>1. IInv => CommandsTidyUp
    BY DEF IInv, TidyInv, OthersSame, GoneAtEnd, CommandsTidyUp, Unpackers
  <1> QED
    BY <1>1, ToolchainInvariance, PTL

\* What `xbd run` executes lies among the files that were bundled with it,
\* all of them, whatever was in the directory before.
THEOREM BundledFilesAreThere == Spec => []RunsWhatWasBundled
  <1>1. ASSUME IInv, Running, ~short
        PROVE  /\ TheBundle.whole = Len(TheBundle.entries)
               /\ \A k \in 1 .. Len(TheBundle.entries) : IsUnpacked(k)
    <2>1. BundleOK(TheBundle) /\ TheBundle.kind = "bundle"
      BY <1>1 DEF IInv, TidyInv, DiskInv, UnpackInv, HoldsBundle, TheBundle
    <2> QED
      BY <1>1, <2>1 DEF IInv, UnpackInv, BundleOK
  <1>2. IInv /\ Running => Len(unpacked) = Len(TheBundle.entries)
    BY DEF IInv, UnpackInv
  <1>3. IInv => RunsWhatWasBundled
    BY <1>1, <1>2 DEF RunsWhatWasBundled, IsUnpacked, Running
  <1> QED
    BY <1>3, ToolchainInvariance, PTL

=============================================================================
