------------------------------- MODULE MCXBin -------------------------------
(***************************************************************************)
(* Bytecode for TLC with bytes of two bits: every number next to a border  *)
(* of a size, alone and beside other operands, and programs with labels.   *)
(***************************************************************************)
EXTENDS XBin

P(flags, code, labels) == [flags |-> flags, code |-> code, labels |-> labels]
I(op, args) == [op |-> op, args |-> args]

Borders == {s * d + e : s \in {-1, 1}, d \in {0, Half1, 2 * Half1, Half2, 2 * Half2,
                                              Half, 2 * Half, Half8}, e \in {-1, 0, 1}}
Numbers == Borders \cap Longs

Programs ==
    {P(<<>>, <<I("push", <<NumOp(x)>>)>>, <<>>) : x \in Numbers}
    \cup {P(<<>>, <<I("add", <<RegOp("RAX"), NumOp(x)>>), I("@r", <<RegOp("RAX")>>)>>,
            <<[name |-> "F", address |-> 1]>>) : x \in {-1, 1, Half2}}
    \cup {P(<<>>, <<>>, <<>>), P(<<>>, <<I("nop", <<>>)>>, <<[name |-> "F", address |-> 0]>>)}
    \cup {P(f, <<I("push", <<TextOp("x")>>), I("alloc", <<TextOp("int"), NumOp(1), RegOp("RAX")>>),
                 I("xcall", <<>>), I("nop", <<>>), I("nop", <<>>)>>,
            <<[name |-> "__entry", address |-> 3], [name |-> "F", address |-> 4]>>) :
             f \in {<<>>, <<"external_library">>, <<"stack", "memory", "xcall">>}}
=============================================================================
