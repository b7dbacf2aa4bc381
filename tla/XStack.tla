------------------------------- MODULE XStack -------------------------------
(***************************************************************************)
(* The bounded stacks of the processor (src/src/orta.h, `XStack`), as      *)
(* sequences whose last element is the top.  xstack_push drops the word    *)
(* when the stack is full and no caller looks at its result; xstack_pop    *)
(* and xstack_peek answer a NULL pointer when there is no such word.       *)
(***************************************************************************)
EXTENDS XWord, Sequences

\* The test of xstack_check with `<=`: one word too many.
PushOneOver(s, cap, w) == IF Len(s) > cap THEN s ELSE Append(s, w)
Push(s, cap, w) == IF Len(s) >= cap THEN s ELSE Append(s, w)

\* A row of pushes: the words beyond the capacity are dropped one by one.
PushAll(s, cap, ws) ==
    s \o SubSeq(ws, 1, IF Len(s) + Len(ws) <= cap THEN Len(ws) ELSE cap - Len(s))

Peek(s, offset) == IF offset >= Len(s) THEN NullWord ELSE s[Len(s) - offset]
Top(s)          == Peek(s, 0)

\* The stack after n pops; popping an empty stack leaves it empty.
Popped(s, n) == SubSeq(s, 1, Len(s) - n)

----------------------------------------------------------------------------
(* IROTL and IROTR pop n words into an array, top first, move them by one  *)
(* place and push them back, last first.                                   *)

TempOf(s, n)      == [i \in 0 .. (n - 1) |-> Peek(s, i)]
FromTemp(temp, n) == [j \in 1 .. n |-> temp[n - j]]
Rotatable(s, n)   == 0 < n /\ n < Len(s)

\* The moves without the word put aside before them.
ShiftedDownLost(temp, n) == [i \in 0 .. (n - 1) |-> IF i = n - 1 THEN temp[i] ELSE temp[i + 1]]
ShiftedDown(temp, n) == [i \in 0 .. (n - 1) |-> IF i = n - 1 THEN temp[0] ELSE temp[i + 1]]
ShiftedUp(temp, n)   == [i \in 0 .. (n - 1) |-> IF i = 0 THEN temp[n - 1] ELSE temp[i - 1]]

RotL(s, n) == IF ~Rotatable(s, n) THEN s
              ELSE Popped(s, n) \o FromTemp(ShiftedDown(TempOf(s, n), n), n)
RotR(s, n) == IF ~Rotatable(s, n) THEN s
              ELSE Popped(s, n) \o FromTemp(ShiftedUp(TempOf(s, n), n), n)

=============================================================================
