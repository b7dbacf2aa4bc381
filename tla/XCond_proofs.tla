----------------------------- MODULE XCond_proofs -----------------------------
(***************************************************************************)
(* The condition variable of xthread.c for any number of threads: the      *)
(* count of waiters is exact in every interleaving, and nobody holds the   *)
(* mutex but where cnd_wait and its callers mean to.                       *)
(***************************************************************************)
EXTENDS XCond, FiniteSetTheorems, TLAPS

\* Where a thread has the mutex, where it has not, and who sleeps where.
WithMutex    == {"test", "testLast", "put", "unlock", "register", "release",
                 "timedWait", "timedAsleep"}
WithoutMutex == {"lock", "done", "wait", "asleep", "deregister", "reset", "relock"}
PlaceInv(t) ==
    /\ place[t] \in WithMutex    => depth[t] = 1
    /\ place[t] \in WithoutMutex => depth[t] = 0
    /\ place[t] \in {"register", "release", "wait", "asleep"} => t \notin TimedTakers
    /\ place[t] \in {"timedWait", "timedAsleep"} => t \in TimedTakers

PlacesInv == \A t \in Threads : PlaceInv(t)
OneHolder == \A t, u \in Threads : depth[t] > 0 /\ depth[u] > 0 => t = u

IInv == CondTypeOK /\ CountIsExact /\ PlacesInv /\ OneHolder

LEMMA RegisteredFinite ==
  /\ IsFiniteSet(Registered) /\ Cardinality(Registered) \in Nat
  /\ \A t \in Registered : /\ IsFiniteSet(Registered \ {t})
                           /\ Cardinality(Registered \ {t}) = Cardinality(Registered) - 1
  <1>1. Registered \subseteq Threads
    BY DEF Registered
  <1>2. IsFiniteSet(Registered)
    BY <1>1, FiniteAssumption, FS_Subset
  <1> QED
    BY <1>2, FS_CardinalityType, FS_RemoveElement

LEMMA InitIInv == Init => IInv
  <1> SUFFICES ASSUME Init PROVE IInv
    OBVIOUS
  <1> USE DEF Init, LockInit
  <1>1. Registered = {}
    BY DEF Registered
  <1>2. CountIsExact
    BY <1>1, FS_EmptySet DEF CountIsExact
  <1>3. CondTypeOK
    <2>1. event \in [Events -> BOOLEAN]
      <3>1. event = [e \in Events |-> FALSE]
        OBVIOUS
      <3> QED
        BY ONLY <3>1, Zenon
    <2>2. /\ depth \in [Threads -> {0, 1}] /\ waiters \in Nat /\ items \in Nat
          /\ wokenBy \in [Threads -> Events \cup {"none"}]
          /\ mishaps \subseteq {"merged", "reset"}
      BY Zenon
    <2>3. place \in [Threads -> {"lock"}]
      OBVIOUS
    <2> QED
      BY <2>1, <2>2, <2>3 DEF CondTypeOK
  <1>4. PlacesInv /\ OneHolder
    BY DEF PlacesInv, PlaceInv, OneHolder, WithMutex, WithoutMutex
  <1> QED
    BY <1>2, <1>3, <1>4 DEF IInv

----------------------------------------------------------------------------
(* Steps.                                                                  *)

\* Everything but the events and the history, which few steps touch.
PlainTypeOK ==
    /\ depth \in [Threads -> {0, 1}] /\ waiters \in Nat /\ items \in Nat
    /\ place \in [Threads -> {"lock", "test", "testLast", "put", "look", "set", "unlock", "done",
                              "register", "release", "wait", "asleep", "deregister", "reset",
                              "relock", "timedWait", "timedAsleep"}]
    /\ wokenBy \in [Threads -> Events \cup {"none"}]
EventTypeOK == event \in [Events -> BOOLEAN] /\ mishaps \subseteq {"merged", "reset"}

LEMMA EventsTyped ==
  ASSUME EventTypeOK, NEW e \in Events, NEW b \in BOOLEAN, event' = [event EXCEPT ![e] = b],
         mishaps' \subseteq {"merged", "reset"}
  PROVE  EventTypeOK'
  BY Zenon DEF EventTypeOK

LEMMA EventsKept == ASSUME EventTypeOK, UNCHANGED <<event, mishaps>> PROVE EventTypeOK'
  BY DEF EventTypeOK

\* No count changes where nobody enters or leaves cnd_wait.
LEMMA CountKept ==
  ASSUME CountIsExact, waiters' = waiters, Registered' = Registered PROVE CountIsExact'
  BY DEF CountIsExact

LEMMA LockMutexKeeps == ASSUME IInv, NEW t \in Threads, LockMutex(t) PROVE IInv'
  <1> USE RoleAssumption DEF LockMutex, At, Goto, Acquire
  <1> PlainTypeOK /\ EventTypeOK /\ CountIsExact /\ PlacesInv /\ OneHolder
    BY DEF IInv, CondTypeOK, PlainTypeOK, EventTypeOK
  <1>1. PlainTypeOK'
    BY DEF PlainTypeOK, OneHolder, PlacesInv, PlaceInv, WithMutex, WithoutMutex
  <1>2. EventTypeOK'
    BY EventsKept
  <1>3. Registered' = Registered
    BY DEF Registered, PlainTypeOK
  <1>4. PlacesInv' /\ OneHolder'
    BY DEF PlainTypeOK, PlacesInv, PlaceInv, WithMutex, WithoutMutex, OneHolder
  <1>5. CondTypeOK'
    BY <1>1, <1>2 DEF CondTypeOK, PlainTypeOK, EventTypeOK
  <1>6. CountIsExact'
    BY <1>3, CountKept
  <1> QED
    BY <1>4, <1>5, <1>6 DEF IInv

LEMMA UnlockMutexKeeps == ASSUME IInv, NEW t \in Threads, UnlockMutex(t) PROVE IInv'
  <1> USE RoleAssumption DEF UnlockMutex, At, Goto, Release
  <1> PlainTypeOK /\ EventTypeOK /\ CountIsExact /\ PlacesInv /\ OneHolder
    BY DEF IInv, CondTypeOK, PlainTypeOK, EventTypeOK
  <1>1. PlainTypeOK'
    BY DEF PlainTypeOK, OneHolder, PlacesInv, PlaceInv, WithMutex, WithoutMutex
  <1>2. EventTypeOK'
    BY EventsKept
  <1>3. Registered' = Registered
    BY DEF Registered, PlainTypeOK
  <1>4. PlacesInv' /\ OneHolder'
    BY DEF PlainTypeOK, PlacesInv, PlaceInv, WithMutex, WithoutMutex, OneHolder
  <1>5. CondTypeOK'
    BY <1>1, <1>2 DEF CondTypeOK, PlainTypeOK, EventTypeOK
  <1>6. CountIsExact'
    BY <1>3, CountKept
  <1> QED
    BY <1>4, <1>5, <1>6 DEF IInv

LEMMA TestItemsKeeps == ASSUME IInv, NEW t \in Threads, TestItems(t) PROVE IInv'
  <1> USE RoleAssumption DEF TestItems, At, Goto
  <1> PlainTypeOK /\ EventTypeOK /\ CountIsExact /\ PlacesInv /\ OneHolder
    BY DEF IInv, CondTypeOK, PlainTypeOK, EventTypeOK
  <1>1. PlainTypeOK'
    BY DEF PlainTypeOK, OneHolder, PlacesInv, PlaceInv, WithMutex, WithoutMutex
  <1>2. EventTypeOK'
    BY EventsKept
  <1>3. Registered' = Registered
    BY DEF Registered, PlainTypeOK
  <1>4. PlacesInv' /\ OneHolder'
    BY DEF PlainTypeOK, PlacesInv, PlaceInv, WithMutex, WithoutMutex, OneHolder
  <1>5. CondTypeOK'
    BY <1>1, <1>2 DEF CondTypeOK, PlainTypeOK, EventTypeOK
  <1>6. CountIsExact'
    BY <1>3, CountKept
  <1> QED
    BY <1>4, <1>5, <1>6 DEF IInv

LEMMA TestLastKeeps == ASSUME IInv, NEW t \in Threads, TestLast(t) PROVE IInv'
  <1> USE RoleAssumption DEF TestLast, At, Goto
  <1> PlainTypeOK /\ EventTypeOK /\ CountIsExact /\ PlacesInv /\ OneHolder
    BY DEF IInv, CondTypeOK, PlainTypeOK, EventTypeOK
  <1>1. PlainTypeOK'
    BY DEF PlainTypeOK, OneHolder, PlacesInv, PlaceInv, WithMutex, WithoutMutex
  <1>2. EventTypeOK'
    BY EventsKept
  <1>3. Registered' = Registered
    BY DEF Registered, PlainTypeOK
  <1>4. PlacesInv' /\ OneHolder'
    BY DEF PlainTypeOK, PlacesInv, PlaceInv, WithMutex, WithoutMutex, OneHolder
  <1>5. CondTypeOK'
    BY <1>1, <1>2 DEF CondTypeOK, PlainTypeOK, EventTypeOK
  <1>6. CountIsExact'
    BY <1>3, CountKept
  <1> QED
    BY <1>4, <1>5, <1>6 DEF IInv

LEMMA PutItemKeeps == ASSUME IInv, NEW t \in Threads, PutItem(t) PROVE IInv'
  <1> USE RoleAssumption DEF PutItem, At, Goto, Release
  <1> PlainTypeOK /\ EventTypeOK /\ CountIsExact /\ PlacesInv /\ OneHolder
    BY DEF IInv, CondTypeOK, PlainTypeOK, EventTypeOK
  <1>1. PlainTypeOK'
    BY DEF PlainTypeOK, OneHolder, PlacesInv, PlaceInv, WithMutex, WithoutMutex
  <1>2. EventTypeOK'
    BY EventsKept
  <1>3. Registered' = Registered
    BY DEF Registered, PlainTypeOK
  <1>4. PlacesInv' /\ OneHolder'
    BY DEF PlainTypeOK, PlacesInv, PlaceInv, WithMutex, WithoutMutex, OneHolder
  <1>5. CondTypeOK'
    BY <1>1, <1>2 DEF CondTypeOK, PlainTypeOK, EventTypeOK
  <1>6. CountIsExact'
    BY <1>3, CountKept
  <1> QED
    BY <1>4, <1>5, <1>6 DEF IInv

LEMMA LookForWaitersKeeps == ASSUME IInv, NEW t \in Threads, LookForWaiters(t) PROVE IInv'
  <1> USE RoleAssumption DEF LookForWaiters, At, Goto, Ends
  <1> PlainTypeOK /\ EventTypeOK /\ CountIsExact /\ PlacesInv /\ OneHolder
    BY DEF IInv, CondTypeOK, PlainTypeOK, EventTypeOK
  <1>1. PlainTypeOK'
    BY DEF PlainTypeOK, OneHolder, PlacesInv, PlaceInv, WithMutex, WithoutMutex
  <1>2. EventTypeOK'
    BY EventsKept
  <1>3. Registered' = Registered
    BY DEF Registered, PlainTypeOK
  <1>4. PlacesInv' /\ OneHolder'
    BY DEF PlainTypeOK, PlacesInv, PlaceInv, WithMutex, WithoutMutex, OneHolder
  <1>5. CondTypeOK'
    BY <1>1, <1>2 DEF CondTypeOK, PlainTypeOK, EventTypeOK
  <1>6. CountIsExact'
    BY <1>3, CountKept
  <1> QED
    BY <1>4, <1>5, <1>6 DEF IInv

LEMMA ReleaseToWaitKeeps == ASSUME IInv, NEW t \in Threads, ReleaseToWait(t) PROVE IInv'
  <1> USE RoleAssumption DEF ReleaseToWait, At, Goto, Release
  <1> PlainTypeOK /\ EventTypeOK /\ CountIsExact /\ PlacesInv /\ OneHolder
    BY DEF IInv, CondTypeOK, PlainTypeOK, EventTypeOK
  <1>1. PlainTypeOK'
    BY DEF PlainTypeOK, OneHolder, PlacesInv, PlaceInv, WithMutex, WithoutMutex
  <1>2. EventTypeOK'
    BY EventsKept
  <1>3. Registered' = Registered
    BY DEF Registered, PlainTypeOK
  <1>4. PlacesInv' /\ OneHolder'
    BY DEF PlainTypeOK, PlacesInv, PlaceInv, WithMutex, WithoutMutex, OneHolder
  <1>5. CondTypeOK'
    BY <1>1, <1>2 DEF CondTypeOK, PlainTypeOK, EventTypeOK
  <1>6. CountIsExact'
    BY <1>3, CountKept
  <1> QED
    BY <1>4, <1>5, <1>6 DEF IInv

LEMMA RelockKeeps == ASSUME IInv, NEW t \in Threads, Relock(t) PROVE IInv'
  <1> USE RoleAssumption DEF Relock, At, Goto, Acquire
  <1> PlainTypeOK /\ EventTypeOK /\ CountIsExact /\ PlacesInv /\ OneHolder
    BY DEF IInv, CondTypeOK, PlainTypeOK, EventTypeOK
  <1>1. PlainTypeOK'
    BY DEF PlainTypeOK, OneHolder, PlacesInv, PlaceInv, WithMutex, WithoutMutex
  <1>2. EventTypeOK'
    BY EventsKept
  <1>3. Registered' = Registered
    BY DEF Registered, PlainTypeOK
  <1>4. PlacesInv' /\ OneHolder'
    BY DEF PlainTypeOK, PlacesInv, PlaceInv, WithMutex, WithoutMutex, OneHolder
  <1>5. CondTypeOK'
    BY <1>1, <1>2 DEF CondTypeOK, PlainTypeOK, EventTypeOK
  <1>6. CountIsExact'
    BY <1>3, CountKept
  <1> QED
    BY <1>4, <1>5, <1>6 DEF IInv

LEMMA TimeOutKeeps == ASSUME IInv, NEW t \in Threads, TimeOut(t) PROVE IInv'
  <1> USE RoleAssumption DEF TimeOut, At, Goto
  <1> PlainTypeOK /\ EventTypeOK /\ CountIsExact /\ PlacesInv /\ OneHolder
    BY DEF IInv, CondTypeOK, PlainTypeOK, EventTypeOK
  <1>1. PlainTypeOK'
    BY DEF PlainTypeOK, OneHolder, PlacesInv, PlaceInv, WithMutex, WithoutMutex
  <1>2. EventTypeOK'
    BY EventsKept
  <1>3. Registered' = Registered
    BY DEF Registered, PlainTypeOK
  <1>4. PlacesInv' /\ OneHolder'
    BY DEF PlainTypeOK, PlacesInv, PlaceInv, WithMutex, WithoutMutex, OneHolder
  <1>5. CondTypeOK'
    BY <1>1, <1>2 DEF CondTypeOK, PlainTypeOK, EventTypeOK
  <1>6. CountIsExact'
    BY <1>3, CountKept
  <1> QED
    BY <1>4, <1>5, <1>6 DEF IInv
\* The count goes up with the thread that enters cnd_wait, and down with the one that leaves.
LEMMA RegisterKeeps == ASSUME IInv, NEW t \in Threads, Register(t) PROVE IInv'
  <1> USE RoleAssumption DEF Register, At, Goto
  <1> PlainTypeOK /\ EventTypeOK /\ CountIsExact /\ PlacesInv /\ OneHolder
    BY DEF IInv, CondTypeOK, PlainTypeOK, EventTypeOK
  <1>1. PlainTypeOK'
    BY DEF PlainTypeOK, OneHolder, PlacesInv, PlaceInv, WithMutex, WithoutMutex
  <1>2. EventTypeOK'
    BY EventsKept
  <1>3. Registered' = Registered \cup {t} /\ t \notin Registered
    BY DEF Registered, PlainTypeOK
  <1>4. PlacesInv' /\ OneHolder'
    BY DEF PlainTypeOK, PlacesInv, PlaceInv, WithMutex, WithoutMutex, OneHolder
  <1>5. CondTypeOK'
    BY <1>1, <1>2 DEF CondTypeOK, PlainTypeOK, EventTypeOK
  <1>6. CountIsExact'
    BY <1>3, RegisteredFinite, FS_AddElement DEF CountIsExact
  <1> QED
    BY <1>4, <1>5, <1>6 DEF IInv

LEMMA DeregisterKeeps == ASSUME IInv, NEW t \in Threads, Deregister(t) PROVE IInv'
  <1> USE RoleAssumption DEF Deregister, At, Goto
  <1> PlainTypeOK /\ EventTypeOK /\ CountIsExact /\ PlacesInv /\ OneHolder
    BY DEF IInv, CondTypeOK, PlainTypeOK, EventTypeOK
  <1>1. PlainTypeOK'
    <2>1. Cardinality(Registered \ {t}) \in Nat /\ waiters - 1 = Cardinality(Registered \ {t})
      <3>1. t \in Registered
        BY DEF Registered
      <3> QED
        BY <3>1, RegisteredFinite, FS_CardinalityType DEF CountIsExact
    <2> QED
      BY <2>1 DEF PlainTypeOK
  <1>2. EventTypeOK'
    BY EventsKept
  <1>3. Registered' = Registered \ {t} /\ t \in Registered
    BY DEF Registered, PlainTypeOK
  <1>4. PlacesInv' /\ OneHolder'
    BY DEF PlainTypeOK, PlacesInv, PlaceInv, WithMutex, WithoutMutex, OneHolder
  <1>5. CondTypeOK'
    BY <1>1, <1>2 DEF CondTypeOK, PlainTypeOK, EventTypeOK
  <1>6. CountIsExact'
    BY <1>3, RegisteredFinite DEF CountIsExact
  <1> QED
    BY <1>4, <1>5, <1>6 DEF IInv

LEMMA SetBroadcastKeeps == ASSUME IInv, NEW t \in Threads, SetBroadcast(t) PROVE IInv'
  <1> USE RoleAssumption DEF SetBroadcast, At, Goto
  <1> PlainTypeOK /\ EventTypeOK /\ CountIsExact /\ PlacesInv /\ OneHolder
    BY DEF IInv, CondTypeOK, PlainTypeOK, EventTypeOK
  <1>1. PlainTypeOK'
    BY DEF PlainTypeOK, Asleep, OneHolder, PlacesInv, PlaceInv, WithMutex, WithoutMutex, Events
  <1>2. EventTypeOK'
    BY EventsTyped DEF Events, EventTypeOK
  <1>3. Registered' = Registered
    BY DEF Registered, PlainTypeOK, PlacesInv, PlaceInv
  <1>4. PlacesInv' /\ OneHolder'
    BY DEF PlainTypeOK, PlacesInv, PlaceInv, WithMutex, WithoutMutex, OneHolder
  <1>5. CondTypeOK'
    BY <1>1, <1>2 DEF CondTypeOK, PlainTypeOK, EventTypeOK
  <1>6. CountIsExact'
    BY <1>3, CountKept
  <1> QED
    BY <1>4, <1>5, <1>6 DEF IInv

LEMMA ResetBroadcastKeeps == ASSUME IInv, NEW t \in Threads, ResetBroadcast(t) PROVE IInv'
  <1> USE RoleAssumption DEF ResetBroadcast, At, Goto
  <1> PlainTypeOK /\ EventTypeOK /\ CountIsExact /\ PlacesInv /\ OneHolder
    BY DEF IInv, CondTypeOK, PlainTypeOK, EventTypeOK
  <1>1. PlainTypeOK'
    BY DEF PlainTypeOK, OneHolder, PlacesInv, PlaceInv, WithMutex, WithoutMutex
  <1>2. EventTypeOK'
    BY EventsTyped DEF Events, EventTypeOK
  <1>3. Registered' = Registered
    BY DEF Registered, PlainTypeOK
  <1>4. PlacesInv' /\ OneHolder'
    BY DEF PlainTypeOK, PlacesInv, PlaceInv, WithMutex, WithoutMutex, OneHolder
  <1>5. CondTypeOK'
    BY <1>1, <1>2 DEF CondTypeOK, PlainTypeOK, EventTypeOK
  <1>6. CountIsExact'
    BY <1>3, CountKept
  <1> QED
    BY <1>4, <1>5, <1>6 DEF IInv

LEMMA SetSignalKeeps == ASSUME IInv, NEW t \in Threads, SetSignal(t) PROVE IInv'
  <1> USE RoleAssumption DEF SetSignal, At, Goto, Ends
  <1> PlainTypeOK /\ EventTypeOK /\ CountIsExact /\ PlacesInv /\ OneHolder
    BY DEF IInv, CondTypeOK, PlainTypeOK, EventTypeOK
  <1>1. PlainTypeOK'
    BY DEF PlainTypeOK, Asleep, OneHolder, PlacesInv, PlaceInv, WithMutex, WithoutMutex, Events
  <1>2. EventTypeOK'
    <2>1. CASE Asleep # {}
      BY <2>1, EventsKept
    <2>2. CASE Asleep = {}
      BY <2>2, EventsTyped DEF Events, EventTypeOK
    <2> QED
      BY <2>1, <2>2
  <1>3. Registered' = Registered
    BY DEF Registered, PlainTypeOK, PlacesInv, PlaceInv, Asleep
  <1>4. PlacesInv' /\ OneHolder'
    BY DEF PlainTypeOK, Asleep, PlacesInv, PlaceInv, WithMutex, WithoutMutex, OneHolder
  <1>5. CondTypeOK'
    BY <1>1, <1>2 DEF CondTypeOK, PlainTypeOK, EventTypeOK
  <1>6. CountIsExact'
    BY <1>3, CountKept
  <1> QED
    BY <1>4, <1>5, <1>6 DEF IInv

LEMMA WaitKeeps == ASSUME IInv, NEW t \in Threads, Wait(t) PROVE IInv'
  <1> USE RoleAssumption DEF Wait, At, Goto, WaitForEvents
  <1> PlainTypeOK /\ EventTypeOK /\ CountIsExact /\ PlacesInv /\ OneHolder
    BY DEF IInv, CondTypeOK, PlainTypeOK, EventTypeOK
  <1>1. PlainTypeOK'
    BY DEF PlainTypeOK, OneHolder, PlacesInv, PlaceInv, WithMutex, WithoutMutex, Events
  <1>2. EventTypeOK'
    <2>1. CASE event["signal"]
      BY <2>1, EventsTyped DEF Events, EventTypeOK
    <2>2. CASE ~event["signal"]
      BY <2>2, EventsKept
    <2> QED
      BY <2>1, <2>2
  <1>3. Registered' = Registered
    BY DEF Registered, PlainTypeOK
  <1>4. PlacesInv' /\ OneHolder'
    BY DEF PlainTypeOK, PlacesInv, PlaceInv, WithMutex, WithoutMutex, OneHolder
  <1>5. CondTypeOK'
    BY <1>1, <1>2 DEF CondTypeOK, PlainTypeOK, EventTypeOK
  <1>6. CountIsExact'
    BY <1>3, CountKept
  <1> QED
    BY <1>4, <1>5, <1>6 DEF IInv

LEMMA TimedWaitKeeps == ASSUME IInv, NEW t \in Threads, TimedWait(t) PROVE IInv'
  <1> USE RoleAssumption DEF TimedWait, At, Goto, WaitForEvents
  <1> PlainTypeOK /\ EventTypeOK /\ CountIsExact /\ PlacesInv /\ OneHolder
    BY DEF IInv, CondTypeOK, PlainTypeOK, EventTypeOK
  <1>1. PlainTypeOK'
    BY DEF PlainTypeOK, OneHolder, PlacesInv, PlaceInv, WithMutex, WithoutMutex, Events
  <1>2. EventTypeOK'
    <2>1. CASE event["signal"]
      BY <2>1, EventsTyped DEF Events, EventTypeOK
    <2>2. CASE ~event["signal"]
      BY <2>2, EventsKept
    <2> QED
      BY <2>1, <2>2
  <1>3. Registered' = Registered
    BY DEF Registered, PlainTypeOK
  <1>4. PlacesInv' /\ OneHolder'
    BY DEF PlainTypeOK, PlacesInv, PlaceInv, WithMutex, WithoutMutex, OneHolder
  <1>5. CondTypeOK'
    BY <1>1, <1>2 DEF CondTypeOK, PlainTypeOK, EventTypeOK
  <1>6. CountIsExact'
    BY <1>3, CountKept
  <1> QED
    BY <1>4, <1>5, <1>6 DEF IInv

LEMMA StepKeeps == IInv /\ [Next]_vars => IInv'
  <1> SUFFICES ASSUME IInv, [Next]_vars PROVE IInv'
    OBVIOUS
  <1>1. CASE UNCHANGED vars
    BY <1>1 DEF vars, IInv, CondTypeOK, CountIsExact, Registered, PlacesInv, PlaceInv, OneHolder
  <1>2. ASSUME NEW t \in Threads, ThreadStep(t) PROVE IInv'
    BY <1>2, LockMutexKeeps, UnlockMutexKeeps, TestItemsKeeps, TestLastKeeps, PutItemKeeps,
       LookForWaitersKeeps, SetSignalKeeps, SetBroadcastKeeps, RegisterKeeps, ReleaseToWaitKeeps,
       WaitKeeps, DeregisterKeeps, ResetBroadcastKeeps, RelockKeeps, TimedWaitKeeps, TimeOutKeeps
    DEF ThreadStep
  <1> QED
    BY <1>1, <1>2 DEF Next

----------------------------------------------------------------------------
(* Theorems.                                                               *)

\* The inductive invariant, for any number of takers and givers.
THEOREM CondInvariance == Spec => []IInv
  BY InitIInv, StepKeeps, PTL DEF Spec

\* Every variable keeps its type: the count of waiters never goes below zero
\* and no thread has the mutex twice.
THEOREM CondTypeCorrect == Spec => []CondTypeOK
  <1>1. IInv => CondTypeOK
    BY DEF IInv
  <1> QED
    BY <1>1, CondInvariance, PTL

\* What cnd_signal reads is the number of threads inside cnd_wait.
THEOREM CountOfWaiters == Spec => []CountIsExact
  <1>1. IInv => CountIsExact
    BY DEF IInv
  <1> QED
    BY <1>1, CondInvariance, PTL

\* One thread at a time has the mutex, and cnd_wait comes back with it while
\* cnd_timedwait never gives it away.
THEOREM CondKeepsMutex == Spec => [](OneHolder /\ PlacesInv)
  <1>1. IInv => OneHolder /\ PlacesInv
    BY DEF IInv
  <1> QED
    BY <1>1, CondInvariance, PTL
===============================================================================
