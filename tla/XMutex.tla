------------------------------- MODULE XMutex -------------------------------
(***************************************************************************)
(* mtx_t of src/src/libs/xthread.c as it is built on Windows, shared by    *)
(* threads that make it with call_once.                                    *)
(*                                                                         *)
(* A plain or timed mutex is a kernel mutex, a recursive one a critical    *)
(* section; one that is recursive and timed is a kernel mutex behind two   *)
(* atomic words, owner and count, which its operations read and write one  *)
(* at a time.  The kernel mutex and the critical section are modelled from *)
(* their use: both let their owner in again and count, and a kernel mutex  *)
(* whose owner ends is handed to the next thread with WAIT_ABANDONED,      *)
(* which the code takes for a failure.                                     *)
(***************************************************************************)
EXTENDS XOnce

CONSTANTS
    MaxHeld,        \* bound: how often a thread locks before it unlocks
    CarelessKinds,  \* kinds that callers also unlock when they do not hold them
    Mortal          \* threads that may end while they hold the mutex

Kinds == {"plain", "timed", "recursive", "rec_timed"}

\* An unlock by a stranger is refused by a kernel mutex.  A recursive timed one
\* would lose its owner and count by it, and for a critical section it is
\* undefined: their callers unlock what they hold.
ASSUME CarelessAssumption == CarelessKinds \subseteq {"plain", "timed"}
ASSUME BoundAssumption    == MaxHeld \in Nat /\ Mortal \subseteq Threads

VARIABLES
    kind,        \* is_recursive and is_timed
    made,        \* "no" before mtx_init, "ok", "failed" if CreateMutex gave NULL
    kOwner,      \* the kernel mutex or critical section: who owns it,
    kCount,      \*   how often,
    abandoned,   \*   and whether its last owner ended
    owner,       \* rec_timed.owner
    count,       \* rec_timed.count
    pc, op,      \* where in which operation a thread is
    held,        \* how often a thread was told that it has the mutex
    dead         \* the threads that have ended

kernel == <<kOwner, kCount, abandoned>>
words  == <<owner, count>>
mutex  == <<kind, made, kOwner, kCount, abandoned, owner, count, pc, op, held, dead>>
vars   == <<status, section, oncePc, runs,
            kind, made, kOwner, kCount, abandoned, owner, count, pc, op, held, dead>>

Places == {"idle", "load", "again", "wait", "setOwner", "setCount", "sub", "clear", "release"}

MutexInit == /\ kind \in Kinds /\ made = "no"
             /\ kOwner = Nobody /\ kCount = 0 /\ abandoned = FALSE
             /\ owner = Nobody /\ count = 0
             /\ pc = [t \in Threads |-> "idle"] /\ op = [t \in Threads |-> "none"]
             /\ held = [t \in Threads |-> 0]
             /\ dead = {}

\* mtx_init; InitializeCriticalSection does not fail.
MtxInit == /\ made' \in {"ok", "failed"} /\ (kind = "recursive" => made' = "ok")
           /\ owner' = Nobody /\ count' = 0
           /\ UNCHANGED <<kind, kernel, pc, op, held, dead>>

At(t, place)   == pc[t] = place /\ t \notin dead
Goto(t, place) == pc' = [pc EXCEPT ![t] = place]
Holds(t)       == held' = [held EXCEPT ![t] = @ + 1]
GivesBack(t)   == held' = [held EXCEPT ![t] = @ - 1]
Free(t)        == kOwner \in {Nobody, t}

\* mtx_lock, mtx_trylock ("try") and mtx_timedlock ("timed"), which refuses a
\* mutex that is not timed.
BeginLock(t, o) ==
    /\ At(t, "idle") /\ OnceAt(t, "returned") /\ held[t] < MaxHeld
    /\ o = "timed" => kind \in {"timed", "rec_timed"}
    /\ op' = [op EXCEPT ![t] = o]
    /\ Goto(t, IF kind = "rec_timed" THEN "load" ELSE "wait")
    /\ UNCHANGED <<once, kind, made, kernel, words, held, dead>>

BeginUnlock(t) ==
    /\ At(t, "idle") /\ OnceAt(t, "returned")
    /\ held[t] > 0 \/ kind \in CarelessKinds
    /\ op' = [op EXCEPT ![t] = "unlock"]
    /\ Goto(t, IF kind = "rec_timed" THEN "sub" ELSE "release")
    /\ UNCHANGED <<once, kind, made, kernel, words, held, dead>>

\* Any owner is taken for the caller.
LoadOwnerSet(t) == /\ At(t, "load")
                   /\ Goto(t, IF owner # Nobody THEN "again" ELSE "wait")
                   /\ UNCHANGED <<once, kind, made, kernel, words, op, held, dead>>
\* atomic_load(owner) == self
LoadOwner(t) == /\ At(t, "load")
                /\ Goto(t, IF owner = t THEN "again" ELSE "wait")
                /\ UNCHANGED <<once, kind, made, kernel, words, op, held, dead>>
\* atomic_fetch_add(count, 1)
LockAgain(t) == /\ At(t, "again")
                /\ count' = count + 1 /\ Holds(t) /\ Goto(t, "idle")
                /\ UNCHANGED <<once, kind, made, kernel, owner, op, dead>>

\* WaitForSingleObject or EnterCriticalSection gets what it waits for.  An
\* abandoned mutex is the caller's from then on, but the caller is told that
\* the call failed.
Take(t) == /\ At(t, "wait") /\ made = "ok" /\ Free(t)
           /\ kOwner' = t /\ kCount' = kCount + 1 /\ abandoned' = FALSE
           /\ IF abandoned THEN Goto(t, "idle") /\ UNCHANGED held
              ELSE IF kind = "rec_timed" THEN Goto(t, "setOwner") /\ UNCHANGED held
              ELSE Goto(t, "idle") /\ Holds(t)
           /\ UNCHANGED <<once, kind, made, words, op, dead>>
SetOwner(t) == /\ At(t, "setOwner")
               /\ owner' = t /\ Goto(t, "setCount")
               /\ UNCHANGED <<once, kind, made, kernel, count, op, held, dead>>
SetCount(t) == /\ At(t, "setCount")
               /\ count' = 1 /\ Holds(t) /\ Goto(t, "idle")
               /\ UNCHANGED <<once, kind, made, kernel, owner, op, dead>>

\* A timed lock waits like any other.
GiveUpTry(t) == /\ At(t, "wait") /\ made = "ok" /\ op[t] = "try" /\ ~Free(t)
                /\ Goto(t, "idle")
                /\ UNCHANGED <<once, kind, made, kernel, words, op, held, dead>>
\* BUSY, or TIMEOUT: the deadline has passed before the wait or during it.
GiveUp(t) == /\ At(t, "wait") /\ made = "ok"
             /\ (op[t] = "try" /\ ~Free(t)) \/ op[t] = "timed"
             /\ Goto(t, "idle")
             /\ UNCHANGED <<once, kind, made, kernel, words, op, held, dead>>
\* WAIT_FAILED: the handle is NULL.
WaitFails(t) == /\ At(t, "wait") /\ made = "failed"
                /\ Goto(t, "idle")
                /\ UNCHANGED <<once, kind, made, kernel, words, op, held, dead>>

\* atomic_fetch_sub(count, 1) - 1
UnlockOne(t) == /\ At(t, "sub")
                /\ count' = count - 1
                /\ IF count - 1 > 0 THEN Goto(t, "idle") /\ GivesBack(t)
                                    ELSE Goto(t, "clear") /\ UNCHANGED held
                /\ UNCHANGED <<once, kind, made, kernel, owner, op, dead>>
\* The word still names the thread when the mutex is released.
KeepOwner(t) == /\ At(t, "clear")
                /\ Goto(t, "release")
                /\ UNCHANGED <<once, kind, made, kernel, words, op, held, dead>>
ClearOwner(t) == /\ At(t, "clear")
                 /\ owner' = Nobody /\ Goto(t, "release")
                 /\ UNCHANGED <<once, kind, made, kernel, count, op, held, dead>>
\* A stranger's call counts too.
ReleaseByAnyone(t) ==
    /\ At(t, "release") /\ Goto(t, "idle")
    /\ kCount' = kCount - 1 /\ kOwner' = IF kCount = 1 THEN Nobody ELSE t
    /\ held' = [held EXCEPT ![t] = IF @ > 0 THEN @ - 1 ELSE 0]
    /\ UNCHANGED <<once, kind, made, abandoned, words, op, dead>>
\* ReleaseMutex, LeaveCriticalSection; a stranger's call changes nothing.
ReleaseKernel(t) == /\ At(t, "release") /\ Goto(t, "idle")
                    /\ IF kOwner = t
                       THEN /\ kCount' = kCount - 1
                            /\ kOwner' = IF kCount = 1 THEN Nobody ELSE t
                            /\ held' = [held EXCEPT ![t] = IF @ > 0 THEN @ - 1 ELSE 0]
                       ELSE UNCHANGED <<kOwner, kCount, held>>
                    /\ UNCHANGED <<once, kind, made, abandoned, words, op, dead>>

\* A thread ends between two calls.  The kernel takes a mutex back; a critical
\* section stays locked.
Die(t) == /\ t \in Mortal /\ At(t, "idle") /\ OnceAt(t, "returned")
          /\ dead' = dead \cup {t} /\ held' = [held EXCEPT ![t] = 0]
          /\ IF kOwner = t /\ kind # "recursive"
             THEN kOwner' = Nobody /\ kCount' = 0 /\ abandoned' = TRUE
             ELSE UNCHANGED kernel
          /\ UNCHANGED <<once, kind, made, words, pc, op>>

\* What an operation does by itself once it is called.
MutexStep(t) == \/ LoadOwner(t) \/ LockAgain(t) \/ Take(t) \/ SetOwner(t) \/ SetCount(t)
                \/ GiveUp(t) \/ WaitFails(t)
                \/ UnlockOne(t) \/ ClearOwner(t) \/ ReleaseKernel(t)

Init == OnceInit /\ MutexInit
Next == \E t \in Threads :
          \/ OnceStep(t) /\ UNCHANGED mutex
          \/ OnceRun(t) /\ MtxInit
          \/ \E o \in {"lock", "try", "timed"} : BeginLock(t, o)
          \/ BeginUnlock(t) \/ MutexStep(t) \/ Die(t)

Spec == Init /\ [][Next]_vars
\* The system schedules every thread that can run; nothing is assumed of what
\* callers do between calls.
ThreadRuns(t) == (OnceStep(t) /\ UNCHANGED mutex) \/ (OnceRun(t) /\ MtxInit) \/ MutexStep(t)
FairSpec == Spec /\ \A t \in Threads : WF_vars(ThreadRuns(t))

----------------------------------------------------------------------------
(* Properties.                                                             *)

MutexTypeOK ==
    /\ status \in 0 .. 3 /\ section \in Threads \cup {Nobody, "unmade"}
    /\ oncePc \in [Threads -> OncePlaces] /\ runs \in Nat
    /\ kind \in Kinds /\ made \in {"no", "ok", "failed"}
    /\ kOwner \in Threads \cup {Nobody} /\ kCount \in Nat /\ abandoned \in BOOLEAN
    /\ owner \in Threads \cup {Nobody} /\ count \in Int
    /\ pc \in [Threads -> Places] /\ op \in [Threads -> {"none", "lock", "try", "timed", "unlock"}]
    /\ held \in [Threads -> Nat] /\ dead \subseteq Threads

\* call_once: the function runs once, whoever comes first and however the
\* others meet it, no section is used before it is made, and no thread leaves
\* call_once before the function has returned, so nobody uses a mutex that is
\* not made.
MadeOnceBeforeUse ==
    /\ runs <= 1
    /\ \A t \in Threads : /\ oncePc[t] \in {"enter", "join"} => section # "unmade"
                          /\ oncePc[t] = "returned" => runs = 1 /\ made # "no"

\* A mutex of any kind does what the abstract lock allows: between the first
\* successful lock of a thread and its last unlock no other thread is told
\* that it has the mutex, whatever order the reads and writes of owner, count
\* and kernel mutex happen in, and also when a holder ends.
Lock == INSTANCE XLock WITH depth <- held
MutexIsLock == Lock!LockSpec

\* Between calls, and while nobody has ended with the mutex, the words and the
\* kernel agree with what callers were told: nobody owns a mutex he has no
\* success for, and a recursive timed one is in the kernel once, with the
\* owner's name and his count.
OwnersHold ==
    \A t \in Threads : pc[t] = "idle" /\ dead = {} =>
        /\ kOwner = t <=> held[t] > 0
        /\ kOwner = t => IF kind = "rec_timed" THEN owner = t /\ count = held[t] /\ kCount = 1
                                               ELSE kCount = held[t]
        /\ kind = "rec_timed" /\ owner = t => kOwner = t

\* call_once returns in every caller; a trylock, a timed lock and an unlock
\* return whatever the other threads do with the mutex.
CallsReturn == \A t \in Threads :
    /\ <>(oncePc[t] = "returned")
    /\ (pc[t] # "idle" /\ op[t] # "lock") ~> (pc[t] = "idle")
=============================================================================
