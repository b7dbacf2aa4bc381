------------------------------ MODULE MCXMutex ------------------------------
(***************************************************************************)
(* Three threads that make a mutex with call_once and use it in every way, *)
(* for each kind of mutex; one of them may end while it holds the mutex.   *)
(***************************************************************************)
EXTENDS XMutex

MCThreads == {"t1", "t2", "t3"}
MCMortal == {"t1"}
MCCarelessKinds == {"plain", "timed"}
=============================================================================
