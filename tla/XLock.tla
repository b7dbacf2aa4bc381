-------------------------------- MODULE XLock --------------------------------
(***************************************************************************)
(* What a mutex of src/src/libs/xthread.c promises its callers: a lock     *)
(* that one thread at a time holds, as often as it likes.  XMutex          *)
(* implements it, XCond uses it.                                           *)
(***************************************************************************)
EXTENDS Integers

CONSTANT Threads
VARIABLE depth   \* how often each thread holds the lock

LockInit == depth = [t \in Threads |-> 0]

Acquire(t) == /\ \A u \in Threads \ {t} : depth[u] = 0
              /\ depth' = [depth EXCEPT ![t] = @ + 1]

Release(t) == depth[t] > 0 /\ depth' = [depth EXCEPT ![t] = @ - 1]

\* The thread ends and takes what it holds with it.
Abandon(t) == depth' = [depth EXCEPT ![t] = 0]

LockNext == \E t \in Threads : Acquire(t) \/ Release(t) \/ Abandon(t)
LockSpec == LockInit /\ [][LockNext]_depth
=============================================================================
