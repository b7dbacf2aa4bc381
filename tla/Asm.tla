--------------------------------- MODULE Asm ---------------------------------
(***************************************************************************)
(* The assembler of src/src/asm.h: preprocess_file turns a source file and *)
(* the files it includes into one text, parse_program preprocesses its     *)
(* input (again, unless --nopreproc skipped orta_preprocess), cuts it into *)
(* tokens and fills the program of the machine in OrtaVM.                  *)
(*                                                                         *)
(* A text is a sequence of marks: a word, a number, a string, the sign of  *)
(* a directive or of a comment, or a punctuation mark.  Every mark counts  *)
(* as one character of the fixed buffer the text is built in.              *)
(***************************************************************************)
EXTENDS OrtaVM

SE == INSTANCE SequencesExt
TL == INSTANCE TLC

CONSTANTS
    Projects,         \* the projects: functions from the names of files to texts
    Main,             \* the file given on the command line
    Compounds,        \* the words that end in a define's name: [whole, stem, tail]
    MaxIncludeDepth,  \* 5: deeper includes are replaced by ""
    MaxText,          \* 8191: the text of one file with its includes
    Passes            \* how often the text is preprocessed: 2, with --nopreproc 1

ASSUME AsmAssumption == /\ MaxIncludeDepth \in Nat /\ MaxText \in Nat /\ MaxText < Half
                        /\ Passes \subseteq {1, 2}

VARIABLES
    phase,     \* "preprocess", "parse", "accepted", "refused", "crashed"
    passes,    \* how often this command preprocesses the text
    pass,      \* the pass at work, or the last one
    project,   \* the files on the disk
    frames,    \* the calls of preprocess_file that are active, the innermost last
    depth,     \* preprocessing_depth
    defines,   \* pp->defines
    locals,    \* pp->local_mappings; local_counter is its length
    context,   \* pp->current_global_label
    stream,    \* the tokens parse_program has not consumed
    section,   \* history of a pass: how many labels it has met
    given,     \* history of a pass: the name each local label of each section has
    filled     \* history: the text given to the parser fills its buffer

labelState   == <<locals, context, section, given>>
preprocessor == <<frames, depth, defines, labelState>>
machine      == <<ip, stack, callStack, regs, globals, local, inLocal,
                  halted, exitCode, flags, status>>
asmVars      == <<phase, passes, pass, project, preprocessor, stream, filled, vars>>

----------------------------------------------------------------------------
(* Marks, and the tokens lexer_next_token makes of them.                   *)

Word(w)    == [kind |-> "word", text |-> w]      \* letters, digits, _
Dotted(w)  == [kind |-> "dotted", text |-> w]    \* .name
Number(n)  == [kind |-> "number", val |-> n]
Quoted(s)  == [kind |-> "string", word |-> s]    \* closed; a define in it is not modelled
Include(f) == [kind |-> "include", file |-> f]   \* #include "f"
Punct(c)   == [kind |-> "punct", sign |-> c]
DefineSign == [kind |-> "define"]                \* #define
Space   == Punct(" ")
Colon   == Punct(":")
Comma   == Punct(",")
NewLine == Punct("\n")
Comment == Punct(";")
Minus   == Punct("-")     \* '-', '@', '$': no token begins with them

\* What a file is made of.  A word may be an instruction's or a register's
\* name; not every name of an operand is a word.
NoWords     == {"(ptr", "(", ")", "#define", "#include"}
SourceWords == (Names \cup Ops \cup Registers) \ NoWords
PlainMarks(words) ==
    [kind : {"word", "dotted"}, text : words] \cup [kind : {"number"}, val : Nat]
      \cup [kind : {"string"}, word : LitWords]
      \cup [kind : {"punct"}, sign : {" ", ":", ",", "\n", ";", "-", "@", "(", ")"}]
Marks(words) == PlainMarks(words) \cup {DefineSign} \cup [kind : {"include"}, file : STRING]

ASSUME ProjectAssumption ==
    \A p \in Projects : \A f \in DOMAIN p : p[f] \in Seq(Marks(SourceWords))

\* A name or a value in a text joins what it is put behind if the two are one
\* word then.
GlueWord(stem, w)   == stem \o w
GlueNumber(stem, n) == stem \o TL!ToString(n)
JoinsWith(s, t) == /\ s # <<>> /\ SE!Last(s).kind \in {"word", "dotted"}
                   /\ t # <<>> /\ t[1].kind \in {"word", "number"}
JoinedMark(m, n) == [m EXCEPT !.text = IF n.kind = "word" THEN GlueWord(@, n.text)
                                                          ELSE GlueNumber(@, n.val)]
Join(s, t) == IF JoinsWith(s, t)
              THEN SE!Front(s) \o <<JoinedMark(SE!Last(s), t[1])>> \o Tail(t)
              ELSE s \o t

Token(type, mark) == [type |-> type, mark |-> mark]
ErrorToken == Token("error", Minus)     \* the value of the token is NULL

IsNameAt(text, k) == k \in 1 .. Len(text) /\ text[k].kind \in {"word", "dotted"}

\* Comments and directives take the rest of their line, one another's signs
\* included.
TakesLine(m)   == m = Comment \/ m.kind \in {"define", "include"}
Taken(text, k) == \E j \in 1 .. (k - 1) : /\ TakesLine(text[j])
                                          /\ \A i \in j .. k : text[i] # NewLine

\* sscanf's reading of the line: the name ends at the next space, the value is
\* what follows, directives and all.
First(K, end) == SE!Min(K \cup {end})
DefineToken(text, k) ==
    LET end   == First({i \in (k + 1) .. Len(text) : text[i] = NewLine}, Len(text) + 1)
        name  == First({i \in (k + 1) .. (end - 1) : text[i] # Space}, end)
        gap   == First({i \in name .. (end - 1) : text[i] = Space}, end)
        value == First({i \in gap .. (end - 1) : text[i] # Space}, end)
    IN  [kind |-> "define", name |-> SubSeq(text, name, gap - 1),
         value |-> SubSeq(text, value, end - 1)]

\* A colon behind a name belongs to the name's token.
PunctTokens(text, k) ==
    LET c == text[k].sign
    IN  CASE c = "\n" -> <<Token("newline", NewLine)>>
          [] c = ";"  -> <<Token("comment", Comment)>>
          [] c = ","  -> <<Token("comma", Comma)>>
          [] c \in {"(", ")"} -> <<Token("paren", text[k])>>
          [] c = ":" /\ IsNameAt(text, k - 1) -> <<>>
          [] OTHER -> <<ErrorToken>>
TokensAt(text, k) ==
    LET m     == text[k]
        colon == k < Len(text) /\ text[k + 1] = Colon
    IN  IF Taken(text, k) \/ m = Space THEN <<>>
        ELSE CASE m.kind = "word"   -> <<Token(IF colon THEN "label" ELSE "identifier", m)>>
               [] m.kind = "dotted" -> <<Token(IF colon THEN "local label" ELSE "identifier", m)>>
               [] m.kind \in {"number", "string"}  -> <<Token(m.kind, m)>>
               [] m.kind = "define"  -> <<Token("directive", DefineToken(text, k))>>
               [] m.kind = "include" -> <<Token("directive", m)>>
               [] m.kind = "punct" -> PunctTokens(text, k)

\* The token at the end of the stream is the end of the sequence.
Tokenize(text) == SE!FlattenSeq([k \in 1 .. Len(text) |-> TokensAt(text, k)])

----------------------------------------------------------------------------
(* The preprocessor: defines, local labels, the text of a file.            *)

\* preprocessor_expand_defines finds the first define that matches, at the
\* start of a token or, since nothing looks at the character before it, at the
\* start of a word's tail.  What it puts there is not looked at again.
Matches(name) == {k \in 1 .. Len(defines) : /\ defines[k].name = name
                                            /\ \A j \in 1 .. (k - 1) : defines[j].name # name}
Replacement(name) == defines[CHOOSE k \in Matches(name) : TRUE].value
TailsOf(w) == {c \in Compounds : c.whole = w /\ Matches(c.tail) # {}}

ExpandDefines(m) ==
    IF Matches(<<m>>) # {} THEN Replacement(<<m>>)
    ELSE IF m.kind = "word" /\ TailsOf(m.text) # {}
         THEN LET c == CHOOSE x \in TailsOf(m.text) : TRUE
              IN  Join(<<Word(c.stem)>>, Replacement(c.tail))
         ELSE <<m>>

\* preprocessor_get_local_label_global_name
MadeName(c, n) == c \o "__local_" \o TL!ToString(n)
LocalName(n)  == MadeName(context, n)
IsMapped(l)   == \E k \in 1 .. Len(locals) : locals[k].local = l
GlobalName(l) == IF IsMapped(l)
                 THEN (CHOOSE m \in SE!ToSet(locals) : m.local = l).global
                 ELSE LocalName(Len(locals))
MapLocal(l)   == locals' = IF IsMapped(l) THEN locals
                           ELSE Append(locals, [local |-> l, global |-> GlobalName(l)])

\* result[pos++] = c when there is room, and strcpy when all of it has room
PutChar(text, c)   == IF Len(text) < MaxText THEN Append(text, c) ELSE text
PutText(text, ms)  == IF Len(text) + Len(ms) < MaxText THEN text \o ms ELSE text
PutSpaced(f, ms)   == PutText(IF f.fresh THEN f.text ELSE PutChar(f.text, Space), ms)

\* preprocess_file's locals: the tokens left, `result` and on_new_line
Frame(text) == [tokens |-> Tokenize(text), text |-> <<>>, fresh |-> TRUE]
Current == frames[Len(frames)]
Callers == SubSeq(frames, 1, Len(frames) - 1)

\* The token the innermost preprocess_file is at, and its next loop round
PpAt(type) == /\ phase = "preprocess" /\ Current.tokens # <<>>
              /\ Current.tokens[1].type = type
PpMark     == Current.tokens[1].mark
Continue(text, fresh) ==
    frames' = Append(Callers, [tokens |-> Tail(Current.tokens), text |-> text, fresh |-> fresh])

PpUnchanged == UNCHANGED <<phase, passes, pass, project, stream, filled, vars>>

\* Without a name there is no define, without a value it is 1.
PpDefine == /\ PpAt("directive") /\ PpMark.kind = "define"
            /\ defines' = IF PpMark.name = <<>> THEN defines
                          ELSE Append(defines, [name  |-> PpMark.name,
                                                value |-> IF PpMark.value = <<>> THEN <<Number(1)>>
                                                          ELSE PpMark.value])
            /\ Continue(Current.text, TRUE)
            /\ PpUnchanged /\ UNCHANGED <<depth, labelState>>

\* An include opens the file, unless the depth is used up ("" is put in its
\* place) or there is no such file (NULL: nothing is put, nothing is said).
IsTooDeep(d) == d > MaxIncludeDepth
PpInclude ==
    /\ PpAt("directive") /\ PpMark.kind = "include"
    /\ ~IsTooDeep(depth) /\ PpMark.file \in DOMAIN project
    /\ depth' = depth + 1
    /\ frames' = Append(frames, Frame(project[PpMark.file]))
    /\ PpUnchanged /\ UNCHANGED <<defines, labelState>>

\* The NULL return without its decrement.
DepthAfterMissingForgets == depth + 1
DepthAfterMissing == depth
PpNoInclude ==
    /\ PpAt("directive") /\ PpMark.kind = "include"
    /\ \/ IsTooDeep(depth) /\ depth' = depth
       \/ /\ ~IsTooDeep(depth) /\ PpMark.file \notin DOMAIN project
          /\ depth' = DepthAfterMissing
    /\ Continue(Current.text, TRUE)
    /\ PpUnchanged /\ UNCHANGED <<defines, labelState>>

PpComment == /\ PpAt("comment")
             /\ Continue(Current.text, Current.fresh)
             /\ PpUnchanged /\ UNCHANGED <<depth, defines, labelState>>

PpNewLine == /\ PpAt("newline")
             /\ Continue(PutChar(Current.text, NewLine), TRUE)
             /\ PpUnchanged /\ UNCHANGED <<depth, defines, labelState>>

\* The mappings of the section before stay.
NewContextKeepsLocals(w) == /\ context' = w /\ locals' = locals
                            /\ section' = section + 1
\* preprocessor_update_global_context
NewContext(w) == /\ context' = w /\ locals' = <<>>
                 /\ section' = section + 1
PpLabel == /\ PpAt("label")
           /\ NewContext(PpMark.text)
           /\ Continue(PutChar(PutSpaced(Current, ExpandDefines(PpMark)), Colon), FALSE)
           /\ PpUnchanged /\ UNCHANGED <<depth, defines, given>>

\* A local label, or a reference to one: the first of them makes its name.
PpLocal(type) ==
    LET named == PutSpaced(Current, <<Word(GlobalName(PpMark.text))>>) IN
    /\ PpAt(type) /\ PpMark.kind = "dotted"
    /\ MapLocal(PpMark.text)
    /\ given' = given \cup {[name |-> GlobalName(PpMark.text), local |-> PpMark.text,
                             context |-> context, section |-> section]}
    /\ Continue(IF type = "local label" THEN PutChar(named, Colon) ELSE named, FALSE)
    /\ PpUnchanged /\ UNCHANGED <<depth, defines, context, section>>

PpToken == /\ \E type \in {"identifier", "number", "string", "comma", "paren"} : PpAt(type)
           /\ PpMark.kind # "dotted"
           /\ Continue(PutSpaced(Current, ExpandDefines(PpMark)), FALSE)
           /\ PpUnchanged /\ UNCHANGED <<depth, defines, labelState>>

\* The character itself goes into the text.
ErrorTextKept == PutSpaced(Current, <<PpMark>>)
\* A token without a value puts nothing.
ErrorText     == Current.text
PpError == /\ PpAt("error")
           /\ Continue(ErrorText, FALSE)
           /\ PpUnchanged /\ UNCHANGED <<depth, defines, labelState>>

\* The end of an included file: the caller takes the text if it has room.
PpReturn ==
    LET caller == frames[Len(frames) - 1] IN
    /\ phase = "preprocess" /\ Len(frames) > 1 /\ Current.tokens = <<>>
    /\ frames' = Append(SubSeq(frames, 1, Len(frames) - 2),
                        [tokens |-> Tail(caller.tokens),
                         text   |-> IF Len(caller.text) + Len(Current.text) < MaxText
                                    THEN Join(caller.text, Current.text) ELSE caller.text,
                         fresh  |-> TRUE])
    /\ depth' = depth - 1
    /\ PpUnchanged /\ UNCHANGED <<defines, labelState>>

\* The end of the main file: orta_preprocess writes the text to F.pre.x and
\* parse_program preprocesses that with a preprocessor of its own, or
\* parse_program goes on with the text.
FreshPreprocessor == /\ defines' = <<>> /\ locals' = <<>> /\ context' = "__global"
                     /\ section' = 0 /\ given' = {}
PpDone ==
    /\ phase = "preprocess" /\ Len(frames) = 1 /\ Current.tokens = <<>>
    /\ \/ /\ pass < passes /\ pass' = pass + 1
          /\ frames' = <<Frame(Current.text)>> /\ FreshPreprocessor
          /\ UNCHANGED <<phase, depth, stream, filled>>
       \/ /\ pass = passes
          /\ phase' = "parse" /\ stream' = Tokenize(Current.text)
          /\ filled' = (Len(Current.text) = MaxText)
          /\ frames' = <<>> /\ depth' = depth - 1
          /\ UNCHANGED <<pass, defines, labelState>>
    /\ UNCHANGED <<passes, project, vars>>

----------------------------------------------------------------------------
(* parse_program: from the tokens to the machine's program.                *)

ParseAt(type) == phase = "parse" /\ stream # <<>> /\ stream[1].type = type
ParseUnchanged == UNCHANGED <<passes, pass, project, preprocessor, filled, machine>>

Add(op, args) == code' = Append(code, [op |-> op, args |-> args])
\* add_label without its nop.
AddLabelOnly(n) == /\ labels' = Append(labels, [name |-> n, address |-> Len(code)])
                   /\ UNCHANGED code
AddLabel(n) == /\ labels' = Append(labels, [name |-> n, address |-> Len(code)])
               /\ Add("nop", <<>>)
ParseLabel == /\ \E type \in {"label", "local label"} : ParseAt(type)
              /\ AddLabel(stream[1].mark.text)
              /\ stream' = Tail(stream)
              /\ UNCHANGED phase /\ ParseUnchanged

\* parse_operands takes every token up to the end of the line, or a comment.
OperandsEnd == CHOOSE k \in 2 .. (Len(stream) + 1) :
                  /\ k = Len(stream) + 1 \/ stream[k].type \in {"newline", "comment"}
                  /\ \A j \in 2 .. (k - 1) : stream[j].type \notin {"newline", "comment"}
OperandTokens == SE!FlattenSeq([k \in 1 .. (OperandsEnd - 2) |->
                     IF stream[k + 1].type = "comma" THEN <<>> ELSE <<stream[k + 1]>>])
\* A directive is an operand too; which one is not told apart.
OperandOf(m) == CASE m.kind = "number"  -> Lit(IntWord(m.val))
                  [] m.kind = "string"  -> Lit(m.word)
                  [] m.kind = "punct"   -> Name(m.sign)
                  [] m.kind = "define"  -> Name("#define")
                  [] m.kind = "include" -> Name("#include")
                  [] m.kind \in {"word", "dotted"} /\ m.text \in Registers -> Reg(m.text)
                  [] OTHER -> Name(m.text)

ParsedArgs   == [k \in 1 .. Len(OperandTokens) |-> OperandOf(OperandTokens[k].mark)]
HasNullValue == \E k \in 1 .. Len(OperandTokens) : OperandTokens[k].type = "error"
ParsedOp     == stream[1].mark.text

\* strdup(NULL): an operand that is an error token.
ParseNullOperand == /\ ParseAt("identifier")
                    /\ ParsedOp \in Ops /\ HasNullValue
                    /\ phase' = "crashed"
                    /\ UNCHANGED <<stream, code, labels>> /\ ParseUnchanged

ParseRefuse == /\ ParseAt("identifier")
               /\ \/ ParsedOp \notin Ops
                  \/ /\ ParsedOp \in Ops /\ ~HasNullValue
                     /\ ~ArgCountOK(ParsedOp, Len(OperandTokens))
               /\ phase' = "refused"
               /\ UNCHANGED <<stream, code, labels>> /\ ParseUnchanged

ParseInstruction == /\ ParseAt("identifier")
                    /\ ParsedOp \in Ops /\ ~HasNullValue
                    /\ ArgCountOK(ParsedOp, Len(OperandTokens))
                    /\ Add(ParsedOp, ParsedArgs)
                    /\ stream' = SubSeq(stream, OperandsEnd, Len(stream))
                    /\ UNCHANGED <<phase, labels>> /\ ParseUnchanged

\* The parser forgets to move on.
SkippedStays == stream
Skipped      == Tail(stream)
\* Ends of lines, comments, and whatever else a line cannot begin with.
ParseSkip == /\ \E type \in {"newline", "comment", "number", "string", "comma", "paren", "error",
                             "directive"} : ParseAt(type)
             /\ stream' = Skipped
             /\ UNCHANGED <<phase, code, labels>> /\ ParseUnchanged

\* execute_program begins at __entry.
ParseDone == /\ phase = "parse" /\ stream = <<>>
             /\ phase' = "accepted" /\ ip' = EntryOf(labels)
             /\ UNCHANGED <<passes, pass, project, preprocessor, stream, filled, code, labels,
                            stack, callStack, regs, scopes, outcome>>

----------------------------------------------------------------------------
\* ortavm_create, and the first preprocess_file
AsmInit ==
    /\ project \in Projects /\ passes \in Passes /\ pass = 1
    /\ code = <<>> /\ labels = <<>> /\ ip = 0
    /\ stack = <<>> /\ callStack = <<>> /\ regs = [r \in Registers |-> NullWord]
    /\ globals = NoVars /\ local = NoVars /\ inLocal = FALSE
    /\ halted = FALSE /\ exitCode = 0 /\ flags = {} /\ status = "running"
    /\ stream = <<>> /\ defines = <<>> /\ locals = <<>> /\ context = "__global"
    /\ section = 0 /\ given = {} /\ filled = FALSE
    /\ IF Main \in DOMAIN project
       THEN phase = "preprocess" /\ frames = <<Frame(project[Main])>> /\ depth = 1
       ELSE phase = "refused" /\ frames = <<>> /\ depth = 0

Preprocess == \/ PpDefine \/ PpInclude \/ PpNoInclude \/ PpComment \/ PpNewLine \/ PpLabel
              \/ PpLocal("local label") \/ PpLocal("identifier")
              \/ PpToken \/ PpError \/ PpReturn \/ PpDone
Parse      == \/ ParseLabel \/ ParseNullOperand \/ ParseRefuse \/ ParseInstruction
              \/ ParseSkip \/ ParseDone

AsmNext == Preprocess \/ Parse
AsmSpec == AsmInit /\ [][AsmNext]_asmVars

\* Nothing but its own loops keeps the assembler from going on.
AsmFairSpec == AsmSpec /\ WF_asmVars(AsmNext)

----------------------------------------------------------------------------
(* What it promises.                                                       *)

\* preprocessing_depth counts the active calls of preprocess_file, on every
\* path out of one: the limit that stops a file from including itself without
\* end stops no include that is not nested that deep, and the recursion is
\* never deeper than the limit and one.
DepthIsNesting == depth = Len(frames) /\ depth <= MaxIncludeDepth + 1

\* In one pass two local labels share the name they are given only if they are
\* the same label of the same section, or if the sections' labels are equal:
\* a jump to .l never reaches another section's .l, whatever is included
\* between the two.
LocalNamesAreUnique ==
    \A a, b \in given : a.name = b.name =>
        \/ a.section = b.section /\ a.local = b.local
        \/ a.section # b.section /\ a.context = b.context

\* What parse_program accepts is a program as OrtaVM assumes it (argument
\* counts, operands, labels inside the program), every label stands at a nop
\* of its own, in the order of the text, and the machine is ready to run it.
\* Only the name of a variable may be something else than a name: the parser
\* looks at no kind of operand.
VariablesAreNamed == \A k \in 1 .. Len(code) : code[k].op \in VarOps => IsName(code[k].args[1])
LabelsMarkNops == \A k \in 1 .. Len(labels) :
                     /\ labels[k].address < Len(code)
                     /\ code[labels[k].address + 1] = [op |-> "nop", args |-> <<>>]
                     /\ \A j \in 1 .. (k - 1) : labels[j].address < labels[k].address
AcceptedIsProgram ==
    phase = "accepted" => /\ VariablesAreNamed => IsProgram([code |-> code, labels |-> labels])
                          /\ LabelsMarkNops
                          /\ ip = EntryOf(labels)

\* parse_operands duplicates an operand without a value only where the last
\* preprocessing has met a define, whose value it puts unread, or has filled its
\* buffer: every other character the lexer has no token for is dropped before.
\* With orta's two passes the last preprocessing begins without the defines of
\* the source, and meets one only where the first has put the value of a define
\* that holds a directive itself.
NullOperandsAreDefined == phase = "crashed" => defines # <<>> \/ filled

\* The assembler comes to an end, for files that include each other too.
AssemblyEnds == <>(phase \in {"accepted", "refused", "crashed"})
=============================================================================
