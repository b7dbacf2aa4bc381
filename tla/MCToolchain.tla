---------------------------- MODULE MCToolchain ----------------------------
(***************************************************************************)
(* Two commands in every directory: a program that runs to its end, one    *)
(* that is cut short, one that runs for ever and one that does not parse.  *)
(***************************************************************************)
EXTENDS Toolchain

Entry(n, c) == [name |-> n, content |-> c]
Brought == {Bundle(m, <<Entry("lib", Data("other")), Entry("F.xbin", c)>>, whole, named) :
              m \in {"F.xbin"}, c \in {Bytecode("fine"), Bytecode("faulty"), Cut},
              whole \in {0, 1}, named \in BOOLEAN}
             \cup {Bundle("F.xbin", <<Entry("lib", Data("other")), Entry("F.xbin", c)>>, 2, FALSE) :
                     c \in {Bytecode("fine"), Bytecode("faulty"), Cut}}
             \cup {Bundle("F.xbin", <<Entry("lib", Data("other")), Entry("lib", Data("lib"))>>,
                          2, FALSE)}
=============================================================================
