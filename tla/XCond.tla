-------------------------------- MODULE XCond --------------------------------
(***************************************************************************)
(* cnd_t of src/src/libs/xthread.c as it is built on Windows: a count of   *)
(* waiters and two events.  events[0] wakes one waiter and resets itself;  *)
(* events[1] stays set until the last waiter resets it.  Its users are the *)
(* usual ones: takers wait, in a loop, for an item that givers put under   *)
(* the mutex and announce by cnd_signal or cnd_broadcast, with the mutex   *)
(* in hand or after they gave it back.                                     *)
(*                                                                         *)
(* The mutex is the abstract lock that XMutex implements.  A critical      *)
(* section of waiters_lock is one step: nothing else touches the count.    *)
(***************************************************************************)
EXTENDS XLock, FiniteSets

CONSTANTS
    Takers,        \* threads that wait for an item with cnd_wait
    TimedTakers,   \* threads that wait for one with cnd_timedwait, once
    Givers         \* threads that put one item and announce it

ASSUME RoleAssumption == /\ Threads = Takers \cup TimedTakers \cup Givers
                         /\ Takers \cap TimedTakers = {}
                         /\ (Takers \cup TimedTakers) \cap Givers = {}
\* waiters_count is an int: there are no more threads than it can count.
ASSUME FiniteAssumption == IsFiniteSet(Threads)

VARIABLES
    waiters,     \* waiters_count
    event,       \* event["signal"], event["broadcast"]: events[0], events[1]
    place,       \* where a thread is
    wokenBy,     \* the event that ended a wait: `result`
    items,       \* what the takers wait for
    mishaps      \* history: the ways in which a wake-up has been lost

vars == <<depth, waiters, event, place, wokenBy, items, mishaps>>

Events == {"signal", "broadcast"}

Init == /\ LockInit
        /\ waiters = 0 /\ event = [e \in Events |-> FALSE]
        /\ place = [t \in Threads |-> "lock"]
        /\ wokenBy = [t \in Threads |-> "none"]
        /\ items = 0 /\ mishaps = {}

At(t, p)   == place[t] = p
Goto(t, p) == place' = [place EXCEPT ![t] = p]

\* Between EnterCriticalSection of the `++` and of the `--` in cnd_wait
Registered == {t \in Threads : place[t] \in {"release", "wait", "asleep", "deregister"}}
Asleep     == {t \in Threads : place[t] \in {"asleep", "timedAsleep"}}

----------------------------------------------------------------------------
(* The user's side: lock, test, take or wait; lock, put, announce.         *)

LockMutex(t) ==
    /\ At(t, "lock") /\ Acquire(t)
    /\ Goto(t, IF t \in Givers THEN "put" ELSE "test")
    /\ UNCHANGED <<waiters, event, wokenBy, items, mishaps>>
UnlockMutex(t) ==
    /\ At(t, "unlock") /\ Release(t)
    /\ Goto(t, "done")
    /\ UNCHANGED <<waiters, event, wokenBy, items, mishaps>>

TestItems(t) ==
    /\ At(t, "test")
    /\ IF items > 0 THEN items' = items - 1 /\ Goto(t, "unlock")
       ELSE UNCHANGED items /\ Goto(t, IF t \in TimedTakers THEN "timedWait" ELSE "register")
    /\ UNCHANGED <<depth, waiters, event, wokenBy, mishaps>>
\* A timed taker looks once more and leaves.
TestLast(t) ==
    /\ At(t, "testLast")
    /\ items' = IF items > 0 THEN items - 1 ELSE 0
    /\ Goto(t, "unlock")
    /\ UNCHANGED <<depth, waiters, event, wokenBy, mishaps>>

\* A giver announces with the mutex in hand, or after giving it back.
PutItem(t) ==
    /\ At(t, "put") /\ items' = items + 1
    /\ \/ Goto(t, "look") /\ UNCHANGED depth
       \/ Goto(t, "look") /\ Release(t)
    /\ UNCHANGED <<waiters, event, wokenBy, mishaps>>

Ends(t) == Goto(t, IF depth[t] > 0 THEN "unlock" ELSE "done")

----------------------------------------------------------------------------
(* cnd_signal and cnd_broadcast.                                           *)

\* One waiter does not count.
LookForMore(t) ==
    /\ At(t, "look")
    /\ IF waiters > 1 THEN Goto(t, "set") ELSE Ends(t)
    /\ UNCHANGED <<depth, waiters, event, wokenBy, items, mishaps>>
\* have_waiters = waiters_count > 0, and the section is left.
LookForWaiters(t) ==
    /\ At(t, "look")
    /\ IF waiters > 0 THEN Goto(t, "set") ELSE Ends(t)
    /\ UNCHANGED <<depth, waiters, event, wokenBy, items, mishaps>>

\* SetEvent(events[0]) releases one thread that sleeps on it; without one the
\* event stays set, and a second SetEvent adds nothing.
SetSignal(t) ==
    /\ At(t, "set")
    /\ IF Asleep # {}
       THEN \E u \in Asleep :
              /\ place' = [place EXCEPT ![u] = IF u \in TimedTakers THEN "testLast" ELSE "deregister",
                                        ![t] = IF depth[t] > 0 THEN "unlock" ELSE "done"]
              /\ wokenBy' = [wokenBy EXCEPT ![u] = "signal"]
              /\ UNCHANGED <<event, mishaps>>
       ELSE /\ event' = [event EXCEPT !["signal"] = TRUE]
            /\ mishaps' = IF event["signal"] THEN mishaps \cup {"merged"} ELSE mishaps
            /\ Ends(t) /\ UNCHANGED wokenBy
    /\ UNCHANGED <<depth, waiters, items>>

\* SetEvent(events[1]) releases all of them and stays set.
SetBroadcast(t) ==
    /\ At(t, "set")
    /\ event' = [event EXCEPT !["broadcast"] = TRUE]
    /\ place' = [u \in Threads |-> IF u = t THEN IF depth[t] > 0 THEN "unlock" ELSE "done"
                                   ELSE IF place[u] = "asleep" THEN "deregister"
                                   ELSE IF place[u] = "timedAsleep" THEN "testLast" ELSE place[u]]
    /\ wokenBy' = [u \in Threads |-> IF u \in Asleep THEN "broadcast" ELSE wokenBy[u]]
    /\ UNCHANGED <<depth, waiters, items, mishaps>>

----------------------------------------------------------------------------
(* cnd_wait.                                                               *)

Register(t) == /\ At(t, "register")
               /\ waiters' = waiters + 1 /\ Goto(t, "release")
               /\ UNCHANGED <<depth, event, wokenBy, items, mishaps>>
ReleaseToWait(t) == /\ At(t, "release") /\ Release(t)
                    /\ Goto(t, "wait")
                    /\ UNCHANGED <<waiters, event, wokenBy, items, mishaps>>

\* WaitForMultipleObjects takes the first event that is set, resets it if it
\* is the one that resets itself, and sleeps if there is none.
WaitForEvents(t, woken, asleep) ==
    \/ /\ event["signal"]
       /\ event' = [event EXCEPT !["signal"] = FALSE]
       /\ wokenBy' = [wokenBy EXCEPT ![t] = "signal"] /\ Goto(t, woken)
    \/ /\ ~event["signal"] /\ event["broadcast"]
       /\ wokenBy' = [wokenBy EXCEPT ![t] = "broadcast"] /\ Goto(t, woken)
       /\ UNCHANGED event
    \/ /\ ~event["signal"] /\ ~event["broadcast"]
       /\ Goto(t, asleep) /\ UNCHANGED <<event, wokenBy>>
Wait(t) == /\ At(t, "wait") /\ WaitForEvents(t, "deregister", "asleep")
           /\ UNCHANGED <<depth, waiters, items, mishaps>>

\* A waiter that a broadcast woke leaves without being counted off.
DeregisterSignalled(t) ==
    /\ At(t, "deregister")
    /\ waiters' = IF wokenBy[t] = "signal" THEN waiters - 1 ELSE waiters
    /\ Goto(t, IF wokenBy[t] = "broadcast" /\ waiters = 1 THEN "reset" ELSE "relock")
    /\ UNCHANGED <<depth, event, wokenBy, items, mishaps>>
\* waiters_count-- and last_waiter
Deregister(t) ==
    /\ At(t, "deregister")
    /\ waiters' = waiters - 1
    /\ Goto(t, IF wokenBy[t] = "broadcast" /\ waiters = 1 THEN "reset" ELSE "relock")
    /\ UNCHANGED <<depth, event, wokenBy, items, mishaps>>
\* ResetEvent(events[1]), after the section was left: someone may have
\* registered since.
ResetBroadcast(t) ==
    /\ At(t, "reset")
    /\ event' = [event EXCEPT !["broadcast"] = FALSE]
    /\ mishaps' = IF event["broadcast"] /\ waiters > 0 THEN mishaps \cup {"reset"} ELSE mishaps
    /\ Goto(t, "relock")
    /\ UNCHANGED <<depth, waiters, wokenBy, items>>
Relock(t) == /\ At(t, "relock") /\ Acquire(t)
             /\ Goto(t, "test")
             /\ UNCHANGED <<waiters, event, wokenBy, items, mishaps>>

----------------------------------------------------------------------------
(* cnd_timedwait: the waiter is not counted, and keeps the mutex.          *)

TimedWait(t) ==
    /\ At(t, "timedWait") /\ WaitForEvents(t, "testLast", "timedAsleep")
    /\ UNCHANGED <<depth, waiters, items, mishaps>>
TimeOutCounted(t) == /\ At(t, "timedAsleep")
                     /\ waiters' = waiters - 1 /\ Goto(t, "testLast")
                     /\ UNCHANGED <<depth, event, wokenBy, items, mishaps>>
TimeOut(t) == /\ At(t, "timedAsleep")
              /\ Goto(t, "testLast")
              /\ UNCHANGED <<depth, waiters, event, wokenBy, items, mishaps>>

ThreadStep(t) ==
    \/ LockMutex(t) \/ UnlockMutex(t) \/ TestItems(t) \/ TestLast(t) \/ PutItem(t)
    \/ LookForWaiters(t) \/ SetSignal(t) \/ SetBroadcast(t)
    \/ Register(t) \/ ReleaseToWait(t) \/ Wait(t)
    \/ Deregister(t) \/ ResetBroadcast(t) \/ Relock(t)
    \/ TimedWait(t) \/ TimeOut(t)
Next == \E t \in Threads : ThreadStep(t)

Spec == Init /\ [][Next]_vars
\* Every thread that can run does; the lock is granted in some order that
\* leaves nobody out for ever.
FairSpec == Spec /\ \A t \in Threads : WF_vars(ThreadStep(t)) /\ SF_vars(LockMutex(t) \/ Relock(t))

----------------------------------------------------------------------------
(* Properties.                                                             *)

CondTypeOK ==
    /\ depth \in [Threads -> {0, 1}]
    /\ waiters \in Nat /\ event \in [Events -> BOOLEAN]
    /\ place \in [Threads -> {"lock", "test", "testLast", "put", "look", "set", "unlock", "done",
                              "register", "release", "wait", "asleep", "deregister", "reset",
                              "relock", "timedWait", "timedAsleep"}]
    /\ wokenBy \in [Threads -> Events \cup {"none"}]
    /\ items \in Nat /\ mishaps \subseteq {"merged", "reset"}

\* waiters_count is the number of threads inside cnd_wait, so a giver that
\* reads 0 after it has put its item under the mutex leaves nobody behind.
CountIsExact == waiters = Cardinality(Registered)

\* A taker does not stay asleep while there is an item for it, unless one of
\* two things has happened to a wake-up: two signals met an event nobody slept
\* on and became one, or the last waiter of a broadcast reset the event of a
\* later one.  A signal that a timed waiter takes, which is not counted, is not
\* among them: it holds the mutex while it waits, so that the signal is one
\* whose item is gone.
WakeUpsArrive == \A t \in Takers :
    (t \in Registered /\ items > 0) ~> (t \notin Registered \/ items = 0 \/ mishaps # {})

=============================================================================
