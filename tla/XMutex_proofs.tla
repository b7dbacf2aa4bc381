---------------------------- MODULE XMutex_proofs ----------------------------
(***************************************************************************)
(* The mutex of xthread.c for any number of threads and any depth of       *)
(* locking: call_once runs its function once, and a mutex of any kind is   *)
(* the abstract lock of XLock.                                             *)
(***************************************************************************)
EXTENDS XMutex, TLAPS

----------------------------------------------------------------------------
(* call_once.                                                              *)

\* The thread that won the exchange, until it leaves call_once.
Winner(t) == oncePc[t] \in {"make", "enter", "publish", "run", "finish", "leave"}

\* What a thread in call_once can rely on at each of its places.
OnceThread(t) ==
    /\ oncePc[t] = "make"     => status = 1 /\ section = "unmade"
    /\ oncePc[t] = "enter"    => status = 1 /\ section = Nobody
    /\ oncePc[t] = "publish"  => status = 1 /\ section = t
    /\ oncePc[t] = "run"      => status = 2 /\ section = t /\ runs = 0
    /\ oncePc[t] = "finish"   => status = 2 /\ section = t /\ runs = 1
    /\ oncePc[t] = "leave"    => status = 3 /\ section = t
    /\ oncePc[t] = "join"     => status \in {2, 3} /\ section # "unmade"
    /\ oncePc[t] = "part"     => status \in {2, 3} /\ section = t
    /\ oncePc[t] = "returned" => status = 3

OnceInv ==
    /\ \A t \in Threads : OnceThread(t)
    /\ \A t, u \in Threads : Winner(t) /\ Winner(u) => t = u
    /\ status = 0 => section = "unmade"
    /\ status \in {2, 3} => section # "unmade"
    /\ runs \in {0, 1}
    /\ status \in {0, 1} => runs = 0
    /\ status = 3 => runs = 1
    /\ made = "no" <=> runs = 0

----------------------------------------------------------------------------
(* The mutex.                                                              *)

\* What the words and the kernel mutex of a recursive timed mutex say of a
\* thread at each of its places: the owner's name and count are his who was
\* told so, but for the few steps between the kernel and the words.
RecTimedThread(t) ==
    /\ pc[t] \in {"idle", "load", "again", "sub"} /\ held[t] > 0 => owner = t /\ count = held[t]
    /\ pc[t] \in {"wait", "setOwner", "setCount"} => held[t] = 0
    /\ pc[t] \in {"again", "sub"} => held[t] > 0
    /\ pc[t] \in {"clear", "release"} => held[t] = 1
    /\ pc[t] \in {"setOwner", "setCount"} => kOwner = t
    /\ pc[t] = "setCount" => owner = t
    /\ pc[t] = "release" => owner # t
    /\ owner = t /\ t \notin dead => held[t] > 0 \/ pc[t] = "setCount"

\* Of the other kinds the kernel alone keeps the count.
KernelThread(t) ==
    /\ pc[t] \in {"idle", "wait", "release"}
    /\ held[t] <= kCount

MutexThread(t) ==
    /\ held[t] > 0 => kOwner = t
    /\ held[t] > 0 \/ pc[t] # "idle" => oncePc[t] = "returned"
    /\ IF kind = "rec_timed" THEN RecTimedThread(t) ELSE KernelThread(t)

MutexInv ==
    /\ \A t \in Threads : MutexThread(t)
    /\ kOwner = Nobody <=> kCount = 0

\* While nobody has ended with the mutex the kernel's count is exact.
CountInv ==
    dead = {} => /\ ~abandoned
                 /\ \A t \in Threads : kOwner = t =>
                      IF kind = "rec_timed"
                      THEN kCount = 1 /\ (held[t] > 0 \/ pc[t] \in {"setOwner", "setCount"})
                      ELSE kCount = held[t]

IInv == MutexTypeOK /\ OnceInv /\ MutexInv /\ CountInv

LEMMA InitIInv == Init => IInv
  <1> SUFFICES ASSUME Init PROVE IInv
    OBVIOUS
  <1> USE DEF Init, OnceInit, MutexInit
  <1>1. MutexTypeOK
    <2>1. /\ status \in 0 .. 3 /\ section \in Threads \cup {Nobody, "unmade"} /\ runs \in Nat
          /\ made \in {"no", "ok", "failed"} /\ kind \in Kinds
          /\ kOwner \in Threads \cup {Nobody} /\ owner \in Threads \cup {Nobody}
          /\ kCount \in Nat /\ count \in Int /\ dead \subseteq Threads
      OBVIOUS
    <2>a. abandoned \in BOOLEAN
      OBVIOUS
    <2>2. oncePc \in [Threads -> OncePlaces] /\ pc \in [Threads -> Places]
      BY DEF OncePlaces, Places
    <2>3. /\ op \in [Threads -> {"none", "lock", "try", "timed", "unlock"}]
          /\ held \in [Threads -> Nat]
      OBVIOUS
    <2> QED
      BY <2>1, <2>2, <2>3, <2>a DEF MutexTypeOK
  <1>2. OnceInv
    BY DEF OnceInv, OnceThread, Winner
  <1>3. MutexInv
    BY NobodyAssumption DEF MutexInv, MutexThread, RecTimedThread, KernelThread
  <1>4. CountInv
    BY NobodyAssumption DEF CountInv
  <1> QED
    BY <1>1, <1>2, <1>3, <1>4 DEF IInv

----------------------------------------------------------------------------
(* The steps of call_once.                                                 *)

LEMMA OnceStepKeeps ==
  ASSUME IInv, NEW t \in Threads, OnceStep(t), UNCHANGED mutex
  PROVE  IInv'
  <1> USE DEF IInv, mutex
  <1>1. MutexTypeOK'
    BY NobodyAssumption DEF MutexTypeOK, OnceStep, OncePlaces, OnceAt, OnceGoto,
       OnceTest, OnceSwitch, OnceCompareExchange, OnceMake, OnceEnter, OncePublish,
       OnceFinish, OnceLeave, OnceJoin, OncePart
  <1>2. OnceInv'
    <2> USE NobodyAssumption DEF MutexTypeOK, OncePlaces, OnceInv, OnceThread, Winner, OnceAt, OnceGoto
    <2>1. CASE OnceTest(t)
      BY <2>1 DEF OnceTest
    <2>2. CASE OnceSwitch(t)
      <3>1. /\ OnceAt(t, "switch") /\ UNCHANGED <<status, section, runs>>
            /\ \/ status = 0 /\ OnceGoto(t, "cas")
               \/ status = 2 /\ OnceGoto(t, "join")
               \/ OnceGoto(t, "test")
        <4>1. CASE status = 0
          BY ONLY <2>2, <4>1 DEF OnceSwitch
        <4>2. CASE status = 2
          BY ONLY <2>2, <4>2 DEF OnceSwitch
        <4>3. CASE status # 0 /\ status # 2
          BY ONLY <2>2, <4>3 DEF OnceSwitch
        <4> QED
          BY <4>1, <4>2, <4>3
      <3> QED
        BY <3>1
    <2>3. CASE OnceCompareExchange(t)
      BY <2>3 DEF OnceCompareExchange
    <2>4. CASE OnceMake(t)
      BY <2>4 DEF OnceMake
    <2>5. CASE OnceEnter(t)
      BY <2>5 DEF OnceEnter
    <2>6. CASE OncePublish(t)
      BY <2>6 DEF OncePublish
    <2>7. CASE OnceFinish(t)
      BY <2>7 DEF OnceFinish
    <2>8. CASE OnceLeave(t)
      BY <2>8 DEF OnceLeave
    <2>9. CASE OnceJoin(t)
      BY <2>9 DEF OnceJoin
    <2>10. CASE OncePart(t)
      BY <2>10 DEF OncePart
    <2> QED
      BY <2>1, <2>2, <2>3, <2>4, <2>5, <2>6, <2>7, <2>8, <2>9, <2>10 DEF OnceStep
  <1>3. \A u \in Threads : oncePc[u] = "returned" => oncePc'[u] = "returned"
    BY DEF MutexTypeOK, OnceStep, OnceAt, OnceGoto,
       OnceTest, OnceSwitch, OnceCompareExchange, OnceMake, OnceEnter, OncePublish,
       OnceFinish, OnceLeave, OnceJoin, OncePart
  <1>4. MutexInv' /\ CountInv'
    BY <1>3 DEF MutexInv, MutexThread, RecTimedThread, KernelThread, CountInv
  <1> QED
    BY <1>1, <1>2, <1>4

\* The function runs: nobody has used the mutex it makes.
LEMMA OnceRunKeeps ==
  ASSUME IInv, NEW t \in Threads, OnceRun(t), MtxInit
  PROVE  IInv'
  <1> USE NobodyAssumption DEF IInv, OnceRun, MtxInit, OnceAt, OnceGoto, kernel
  <1>1. MutexTypeOK'
    BY DEF MutexTypeOK, OncePlaces
  <1>2. OnceInv'
    BY DEF OnceInv, OnceThread, Winner, MutexTypeOK
  <1>3. \A u \in Threads : held[u] = 0 /\ pc[u] = "idle"
    BY DEF OnceInv, OnceThread, MutexInv, MutexThread, MutexTypeOK
  <1>4. MutexInv'
    BY <1>3 DEF MutexInv, MutexThread, RecTimedThread, KernelThread, MutexTypeOK
  <1>5. CountInv'
    BY <1>3 DEF CountInv, MutexTypeOK
  <1> QED
    BY <1>1, <1>2, <1>4, <1>5

----------------------------------------------------------------------------
(* The steps of the mutex.                                                 *)

LEMMA OnceInvKept == ASSUME OnceInv, UNCHANGED <<once, made>> PROVE OnceInv'
  BY DEF OnceInv, OnceThread, Winner, once

LEMMA BeginLockKeeps ==
  ASSUME IInv, NEW t \in Threads, NEW o \in {"lock", "try", "timed"}, BeginLock(t, o)
  PROVE  IInv'
  <1> USE NobodyAssumption, BoundAssumption
      DEF IInv, MutexTypeOK, At, Goto, Places, once, kernel, words, BeginLock, OnceAt
  <1>1. MutexTypeOK'
    BY DEF MutexInv, MutexThread, RecTimedThread
  <1>2. OnceInv'
    BY OnceInvKept
  <1>3. \A u \in Threads : MutexThread(u)'
    BY DEF MutexInv, MutexThread, RecTimedThread, KernelThread
  <1>4. (kOwner = Nobody <=> kCount = 0)'
    BY DEF MutexInv, MutexThread, RecTimedThread
  <1>5. CountInv'
    BY DEF CountInv, MutexInv, MutexThread, RecTimedThread, KernelThread
  <1> QED
    BY <1>1, <1>2, <1>3, <1>4, <1>5 DEF MutexInv

LEMMA BeginUnlockKeeps ==
  ASSUME IInv, NEW t \in Threads, BeginUnlock(t)
  PROVE  IInv'
  <1> USE NobodyAssumption, BoundAssumption, CarelessAssumption
      DEF IInv, MutexTypeOK, At, Goto, Places, once, kernel, words, BeginUnlock, OnceAt
  <1>1. MutexTypeOK'
    BY DEF MutexInv, MutexThread, RecTimedThread
  <1>2. OnceInv'
    BY OnceInvKept
  <1>3. \A u \in Threads : MutexThread(u)'
    BY DEF MutexInv, MutexThread, RecTimedThread, KernelThread
  <1>4. (kOwner = Nobody <=> kCount = 0)'
    BY DEF MutexInv, MutexThread, RecTimedThread
  <1>5. CountInv'
    BY DEF CountInv, MutexInv, MutexThread, RecTimedThread, KernelThread
  <1> QED
    BY <1>1, <1>2, <1>3, <1>4, <1>5 DEF MutexInv

\* A thread that finds its own name in the owner word holds the mutex, since only
\* he who is in the kernel mutex writes that word.
LEMMA LoadOwnerKeeps ==
  ASSUME IInv, NEW t \in Threads, LoadOwner(t)
  PROVE  IInv'
  <1> USE NobodyAssumption, BoundAssumption
      DEF IInv, MutexTypeOK, At, Goto, Places, once, kernel, words, LoadOwner
  <1>1. MutexTypeOK'
    BY DEF MutexInv, MutexThread, RecTimedThread
  <1>2. OnceInv'
    BY OnceInvKept
  <1>3. \A u \in Threads : MutexThread(u)'
    BY DEF MutexInv, MutexThread, RecTimedThread, KernelThread
  <1>4. (kOwner = Nobody <=> kCount = 0)'
    BY DEF MutexInv, MutexThread, RecTimedThread
  <1>5. CountInv'
    BY DEF CountInv, MutexInv, MutexThread, RecTimedThread, KernelThread
  <1> QED
    BY <1>1, <1>2, <1>3, <1>4, <1>5 DEF MutexInv

LEMMA LockAgainKeeps ==
  ASSUME IInv, NEW t \in Threads, LockAgain(t)
  PROVE  IInv'
  <1> USE NobodyAssumption, BoundAssumption
      DEF IInv, MutexTypeOK, At, Goto, Places, once, kernel, words, LockAgain, Holds
  <1>1. MutexTypeOK'
    BY DEF MutexInv, MutexThread, RecTimedThread
  <1>2. OnceInv'
    BY OnceInvKept
  <1>3. \A u \in Threads : MutexThread(u)'
    BY DEF MutexInv, MutexThread, RecTimedThread, KernelThread
  <1>4. (kOwner = Nobody <=> kCount = 0)'
    BY DEF MutexInv, MutexThread, RecTimedThread
  <1>5. CountInv'
    BY DEF CountInv, MutexInv, MutexThread, RecTimedThread, KernelThread
  <1> QED
    BY <1>1, <1>2, <1>3, <1>4, <1>5 DEF MutexInv

\* The kernel mutex is free or the caller's own; whoever else was told that he
\* holds it would own it in the kernel.
LEMMA TakeKeeps ==
  ASSUME IInv, NEW t \in Threads, Take(t)
  PROVE  IInv'
  <1> USE NobodyAssumption, BoundAssumption
      DEF IInv, MutexTypeOK, At, Goto, Places, once, kernel, words, Take, Free, Holds
  <1>1. MutexTypeOK'
    <2>1. abandoned' \in BOOLEAN
      <3>1. abandoned' \in {abandoned, FALSE} /\ abandoned \in BOOLEAN
        OBVIOUS
      <3> QED
        BY ONLY <3>1, Zenon
    <2>2. /\ UNCHANGED <<status, section, oncePc, runs, kind, made, owner, count, op>>
          /\ kOwner' \in Threads \cup {Nobody} /\ kCount' \in Nat
          /\ pc' \in [Threads -> Places] /\ held' \in [Threads -> Nat]
          /\ dead' \subseteq Threads
      OBVIOUS
    <2> QED
      BY ONLY <2>1, <2>2, MutexTypeOK DEF MutexTypeOK
  <1>2. OnceInv'
    BY OnceInvKept
  <1>3. \A u \in Threads : MutexThread(u)'
    BY DEF MutexInv, MutexThread, RecTimedThread, KernelThread
  <1>4. (kOwner = Nobody <=> kCount = 0)'
    BY DEF MutexInv, MutexThread, RecTimedThread
  <1>5. CountInv'
    BY DEF CountInv, MutexInv, MutexThread, RecTimedThread, KernelThread
  <1> QED
    BY <1>1, <1>2, <1>3, <1>4, <1>5 DEF MutexInv

LEMMA SetOwnerKeeps ==
  ASSUME IInv, NEW t \in Threads, SetOwner(t)
  PROVE  IInv'
  <1> USE NobodyAssumption, BoundAssumption
      DEF IInv, MutexTypeOK, At, Goto, Places, once, kernel, words, SetOwner
  <1>1. MutexTypeOK'
    BY DEF MutexInv, MutexThread, RecTimedThread
  <1>2. OnceInv'
    BY OnceInvKept
  <1>3. \A u \in Threads : MutexThread(u)'
    BY DEF MutexInv, MutexThread, RecTimedThread, KernelThread
  <1>4. (kOwner = Nobody <=> kCount = 0)'
    BY DEF MutexInv, MutexThread, RecTimedThread
  <1>5. CountInv'
    BY DEF CountInv, MutexInv, MutexThread, RecTimedThread, KernelThread
  <1> QED
    BY <1>1, <1>2, <1>3, <1>4, <1>5 DEF MutexInv

LEMMA SetCountKeeps ==
  ASSUME IInv, NEW t \in Threads, SetCount(t)
  PROVE  IInv'
  <1> USE NobodyAssumption, BoundAssumption
      DEF IInv, MutexTypeOK, At, Goto, Places, once, kernel, words, SetCount, Holds
  <1>1. MutexTypeOK'
    BY DEF MutexInv, MutexThread, RecTimedThread
  <1>2. OnceInv'
    BY OnceInvKept
  <1>3. \A u \in Threads : MutexThread(u)'
    BY DEF MutexInv, MutexThread, RecTimedThread, KernelThread
  <1>4. (kOwner = Nobody <=> kCount = 0)'
    BY DEF MutexInv, MutexThread, RecTimedThread
  <1>5. CountInv'
    BY DEF CountInv, MutexInv, MutexThread, RecTimedThread, KernelThread
  <1> QED
    BY <1>1, <1>2, <1>3, <1>4, <1>5 DEF MutexInv

LEMMA GiveUpKeeps ==
  ASSUME IInv, NEW t \in Threads, GiveUp(t)
  PROVE  IInv'
  <1> USE NobodyAssumption, BoundAssumption
      DEF IInv, MutexTypeOK, At, Goto, Places, once, kernel, words, GiveUp
  <1>1. MutexTypeOK'
    BY DEF MutexInv, MutexThread, RecTimedThread
  <1>2. OnceInv'
    BY OnceInvKept
  <1>3. \A u \in Threads : MutexThread(u)'
    BY DEF MutexInv, MutexThread, RecTimedThread, KernelThread
  <1>4. (kOwner = Nobody <=> kCount = 0)'
    BY DEF MutexInv, MutexThread, RecTimedThread
  <1>5. CountInv'
    BY DEF CountInv, MutexInv, MutexThread, RecTimedThread, KernelThread
  <1> QED
    BY <1>1, <1>2, <1>3, <1>4, <1>5 DEF MutexInv

LEMMA WaitFailsKeeps ==
  ASSUME IInv, NEW t \in Threads, WaitFails(t)
  PROVE  IInv'
  <1> USE NobodyAssumption, BoundAssumption
      DEF IInv, MutexTypeOK, At, Goto, Places, once, kernel, words, WaitFails
  <1>1. MutexTypeOK'
    BY DEF MutexInv, MutexThread, RecTimedThread
  <1>2. OnceInv'
    BY OnceInvKept
  <1>3. \A u \in Threads : MutexThread(u)'
    BY DEF MutexInv, MutexThread, RecTimedThread, KernelThread
  <1>4. (kOwner = Nobody <=> kCount = 0)'
    BY DEF MutexInv, MutexThread, RecTimedThread
  <1>5. CountInv'
    BY DEF CountInv, MutexInv, MutexThread, RecTimedThread, KernelThread
  <1> QED
    BY <1>1, <1>2, <1>3, <1>4, <1>5 DEF MutexInv

\* The count of a holder is his own, so that it reaches zero with his last unlock.
LEMMA UnlockOneKeeps ==
  ASSUME IInv, NEW t \in Threads, UnlockOne(t)
  PROVE  IInv'
  <1> USE NobodyAssumption, BoundAssumption
      DEF IInv, MutexTypeOK, At, Goto, Places, once, kernel, words, UnlockOne, GivesBack
  <1>1. MutexTypeOK'
    BY DEF MutexInv, MutexThread, RecTimedThread, KernelThread
  <1>2. OnceInv'
    BY OnceInvKept
  <1>3. \A u \in Threads : MutexThread(u)'
    BY DEF MutexInv, MutexThread, RecTimedThread, KernelThread
  <1>4. (kOwner = Nobody <=> kCount = 0)'
    BY DEF MutexInv, MutexThread, RecTimedThread
  <1>5. CountInv'
    BY DEF CountInv, MutexInv, MutexThread, RecTimedThread, KernelThread
  <1> QED
    BY <1>1, <1>2, <1>3, <1>4, <1>5 DEF MutexInv

LEMMA ClearOwnerKeeps ==
  ASSUME IInv, NEW t \in Threads, ClearOwner(t)
  PROVE  IInv'
  <1> USE NobodyAssumption, BoundAssumption
      DEF IInv, MutexTypeOK, At, Goto, Places, once, kernel, words, ClearOwner
  <1>1. MutexTypeOK'
    BY DEF MutexInv, MutexThread, RecTimedThread
  <1>2. OnceInv'
    BY OnceInvKept
  <1>3. \A u \in Threads : MutexThread(u)'
    BY DEF MutexInv, MutexThread, RecTimedThread, KernelThread
  <1>4. (kOwner = Nobody <=> kCount = 0)'
    BY DEF MutexInv, MutexThread, RecTimedThread
  <1>5. CountInv'
    BY DEF CountInv, MutexInv, MutexThread, RecTimedThread, KernelThread
  <1> QED
    BY <1>1, <1>2, <1>3, <1>4, <1>5 DEF MutexInv

\* A stranger changes nothing, and the last release leaves no holder behind.
LEMMA ReleaseKernelKeeps ==
  ASSUME IInv, NEW t \in Threads, ReleaseKernel(t)
  PROVE  IInv'
  <1> USE NobodyAssumption, BoundAssumption
      DEF IInv, MutexTypeOK, At, Goto, Places, once, kernel, words, ReleaseKernel
  <1>1. MutexTypeOK'
    BY DEF MutexInv, MutexThread, RecTimedThread
  <1>2. OnceInv'
    BY OnceInvKept
  <1>3. \A u \in Threads : MutexThread(u)'
    BY DEF MutexInv, MutexThread, RecTimedThread, KernelThread
  <1>4. (kOwner = Nobody <=> kCount = 0)'
    BY DEF MutexInv, MutexThread, RecTimedThread
  <1>5. CountInv'
    BY DEF CountInv, MutexInv, MutexThread, RecTimedThread, KernelThread
  <1> QED
    BY <1>1, <1>2, <1>3, <1>4, <1>5 DEF MutexInv

\* The kernel takes the mutex of a thread that ends; a critical section stays taken.
LEMMA DieKeeps ==
  ASSUME IInv, NEW t \in Threads, Die(t)
  PROVE  IInv'
  <1> USE NobodyAssumption, BoundAssumption
      DEF IInv, MutexTypeOK, At, Goto, Places, once, kernel, words, Die
  <1>1. MutexTypeOK'
    <2>1. abandoned' \in BOOLEAN
      <3>1. abandoned' \in {abandoned, TRUE} /\ abandoned \in BOOLEAN
        OBVIOUS
      <3> QED
        BY ONLY <3>1, Zenon
    <2>2. /\ UNCHANGED <<status, section, oncePc, runs, kind, made, owner, count, op>>
          /\ kOwner' \in Threads \cup {Nobody} /\ kCount' \in Nat
          /\ pc' \in [Threads -> Places] /\ held' \in [Threads -> Nat]
          /\ dead' \subseteq Threads
      OBVIOUS
    <2> QED
      BY ONLY <2>1, <2>2, MutexTypeOK DEF MutexTypeOK
  <1>2. OnceInv'
    BY OnceInvKept
  <1>3. \A u \in Threads : MutexThread(u)'
    BY DEF MutexInv, MutexThread, RecTimedThread, KernelThread
  <1>4. (kOwner = Nobody <=> kCount = 0)'
    BY DEF MutexInv, MutexThread, RecTimedThread
  <1>5. CountInv'
    BY DEF CountInv, MutexInv, MutexThread, RecTimedThread, KernelThread
  <1> QED
    BY <1>1, <1>2, <1>3, <1>4, <1>5 DEF MutexInv

LEMMA StepKeeps == IInv /\ [Next]_vars => IInv'
  <1> SUFFICES ASSUME IInv, [Next]_vars PROVE IInv'
    OBVIOUS
  <1>1. CASE UNCHANGED vars
    BY <1>1 DEF vars, IInv, MutexTypeOK, OnceInv, OnceThread, Winner, MutexInv, MutexThread,
       RecTimedThread, KernelThread, CountInv
  <1>2. ASSUME NEW t \in Threads, OnceStep(t), UNCHANGED mutex PROVE IInv'
    BY <1>2, OnceStepKeeps
  <1>3. ASSUME NEW t \in Threads, OnceRun(t), MtxInit PROVE IInv'
    BY <1>3, OnceRunKeeps
  <1>4. ASSUME NEW t \in Threads, NEW o \in {"lock", "try", "timed"}, BeginLock(t, o) PROVE IInv'
    BY <1>4, BeginLockKeeps
  <1>5. ASSUME NEW t \in Threads, BeginUnlock(t) PROVE IInv'
    BY <1>5, BeginUnlockKeeps
  <1>6. ASSUME NEW t \in Threads, MutexStep(t) PROVE IInv'
    BY <1>6, LoadOwnerKeeps, LockAgainKeeps, TakeKeeps, SetOwnerKeeps, SetCountKeeps, GiveUpKeeps,
       WaitFailsKeeps, UnlockOneKeeps, ClearOwnerKeeps, ReleaseKernelKeeps DEF MutexStep
  <1>7. ASSUME NEW t \in Threads, Die(t) PROVE IInv'
    BY <1>7, DieKeeps
  <1> QED
    BY <1>1, <1>2, <1>3, <1>4, <1>5, <1>6, <1>7 DEF Next

----------------------------------------------------------------------------
(* Theorems.                                                               *)

\* The inductive invariant, for every number of threads and every kind of mutex.
THEOREM MutexInvariance == Spec => []IInv
  BY InitIInv, StepKeeps, PTL DEF Spec

\* Every variable of mutex and flag keeps its type; no count of the kernel or
\* of a caller goes below zero, whoever unlocks.
THEOREM MutexTypeCorrect == Spec => []MutexTypeOK
  <1>1. IInv => MutexTypeOK
    BY DEF IInv
  <1> QED
    BY <1>1, MutexInvariance, PTL

\* call_once runs its function once, and nobody leaves it before that.
THEOREM OnceIsOnce == Spec => []MadeOnceBeforeUse
  <1>1. IInv => MadeOnceBeforeUse
    BY NobodyAssumption DEF IInv, OnceInv, OnceThread, MadeOnceBeforeUse
  <1> QED
    BY <1>1, MutexInvariance, PTL

\* Between calls the words and the kernel mutex agree with what callers know.
THEOREM OwnersAreHolders == Spec => []OwnersHold
  <1>1. IInv => OwnersHold
    BY NobodyAssumption DEF IInv, MutexTypeOK, MutexInv, MutexThread, RecTimedThread, KernelThread,
       CountInv, OwnersHold
  <1> QED
    BY <1>1, MutexInvariance, PTL

\* Every step of the mutex is one of the abstract lock on `held`, or none.
LEMMA StepIsLockStep == IInv /\ [Next]_vars => [Lock!LockNext]_held
  <1> SUFFICES ASSUME IInv, [Next]_vars, held' # held PROVE Lock!LockNext
    OBVIOUS
  <1> USE DEF IInv, MutexTypeOK, MutexInv, MutexThread, RecTimedThread, KernelThread, At,
      Lock!LockNext, Lock!Acquire, Lock!Release, Lock!Abandon
  <1>1. ASSUME NEW t \in Threads, LockAgain(t) PROVE Lock!Acquire(t)
    BY <1>1 DEF LockAgain, Holds
  <1>2. ASSUME NEW t \in Threads, Take(t) PROVE Lock!Acquire(t)
    BY <1>2, NobodyAssumption DEF Take, Free, Holds
  <1>3. ASSUME NEW t \in Threads, SetCount(t) PROVE Lock!Acquire(t)
    BY <1>3 DEF SetCount, Holds
  <1>4. ASSUME NEW t \in Threads, UnlockOne(t) PROVE Lock!Release(t)
    BY <1>4 DEF UnlockOne, GivesBack
  <1>5. ASSUME NEW t \in Threads, ReleaseKernel(t) PROVE Lock!Release(t)
    BY <1>5 DEF ReleaseKernel
  <1>6. ASSUME NEW t \in Threads, Die(t) PROVE Lock!Abandon(t)
    BY <1>6 DEF Die
  <1>7. \E t \in Threads : \/ LockAgain(t) \/ Take(t) \/ SetCount(t)
                           \/ UnlockOne(t) \/ ReleaseKernel(t) \/ Die(t)
    BY DEF Next, vars, mutex, MtxInit, BeginLock, BeginUnlock, MutexStep,
       LoadOwner, SetOwner, GiveUp, WaitFails, ClearOwner
  <1> QED
    BY <1>1, <1>2, <1>3, <1>4, <1>5, <1>6, <1>7

\* The refinement: a mutex of any kind, with its kernel object, its words and
\* whatever order they are read and written in, is a lock.
THEOREM MutexImplementsLock == Spec => MutexIsLock
  <1>1. Init => Lock!LockInit
    BY DEF Init, MutexInit, Lock!LockInit
  <1> QED
    BY <1>1, StepIsLockStep, MutexInvariance, PTL DEF Spec, MutexIsLock, Lock!LockSpec
=============================================================================
