-------------------------------- MODULE XOnce --------------------------------
(***************************************************************************)
(* call_once of src/src/libs/xthread.c as it is built on Windows: a status *)
(* word changed by one interlocked operation, and a critical section that  *)
(* the first caller holds while it runs the function.  XThread says what   *)
(* the function does.                                                      *)
(*                                                                         *)
(* status: 0 nothing done, 1 the section is being made, 2 the function     *)
(* runs, 3 it has returned.                                                *)
(***************************************************************************)
EXTENDS Integers

CONSTANTS Threads,
          Nobody     \* no thread

ASSUME NobodyAssumption == Nobody \notin Threads /\ "unmade" \notin Threads \cup {Nobody}

VARIABLES status,    \* flag->status
          section,   \* flag->lock: "unmade", Nobody or the thread inside
          oncePc,    \* where in call_once a thread is
          runs       \* how often the function has been called

once == <<status, section, oncePc, runs>>

OncePlaces == {"test", "switch", "cas", "make", "enter", "publish", "run", "finish",
               "leave", "join", "part", "returned"}

OnceInit == /\ status = 0 /\ section = "unmade" /\ runs = 0
            /\ oncePc = [t \in Threads |-> "test"]

OnceGoto(t, place) == oncePc' = [oncePc EXCEPT ![t] = place]
OnceAt(t, place) == oncePc[t] = place

\* while (flag->status < 3)
OnceTest(t) == /\ OnceAt(t, "test")
               /\ OnceGoto(t, IF status < 3 THEN "switch" ELSE "returned")
               /\ UNCHANGED <<status, section, runs>>

\* switch (flag->status) reads it again; 1 and 3 fall through to the loop.
OnceSwitch(t) == /\ OnceAt(t, "switch")
                 /\ OnceGoto(t, CASE status = 0 -> "cas" [] status = 2 -> "join" [] OTHER -> "test")
                 /\ UNCHANGED <<status, section, runs>>

\* The status is stored without a comparison.
OnceStore(t) == /\ OnceAt(t, "cas")
                /\ status' = 1 /\ OnceGoto(t, "make")
                /\ UNCHANGED <<section, runs>>
\* InterlockedCompareExchange(&flag->status, 1, 0)
OnceCompareExchange(t) ==
    /\ OnceAt(t, "cas")
    /\ IF status = 0 THEN status' = 1 /\ OnceGoto(t, "make")
                     ELSE UNCHANGED status /\ OnceGoto(t, "test")
    /\ UNCHANGED <<section, runs>>

OnceMake(t) == /\ OnceAt(t, "make")
               /\ section' = Nobody /\ OnceGoto(t, "enter")
               /\ UNCHANGED <<status, runs>>
OnceEnter(t) == /\ OnceAt(t, "enter") /\ section = Nobody
                /\ section' = t /\ OnceGoto(t, "publish")
                /\ UNCHANGED <<status, runs>>
OncePublish(t) == /\ OnceAt(t, "publish")
                  /\ status' = 2 /\ OnceGoto(t, "run")
                  /\ UNCHANGED <<section, runs>>
\* func()
OnceRun(t) == /\ OnceAt(t, "run")
              /\ runs' = runs + 1 /\ OnceGoto(t, "finish")
              /\ UNCHANGED <<status, section>>
OnceFinish(t) == /\ OnceAt(t, "finish")
                 /\ status' = 3 /\ OnceGoto(t, "leave")
                 /\ UNCHANGED <<section, runs>>
OnceLeave(t) == /\ OnceAt(t, "leave")
                /\ section' = Nobody /\ OnceGoto(t, "returned")
                /\ UNCHANGED <<status, runs>>

\* case 2: the others queue at the section until the first caller leaves it.
OnceJoin(t) == /\ OnceAt(t, "join") /\ section = Nobody
               /\ section' = t /\ OnceGoto(t, "part")
               /\ UNCHANGED <<status, runs>>
OncePart(t) == /\ OnceAt(t, "part")
               /\ section' = Nobody /\ OnceGoto(t, "test")
               /\ UNCHANGED <<status, runs>>

\* Every step of call_once but the call of the function.
OnceStep(t) == \/ OnceTest(t) \/ OnceSwitch(t) \/ OnceCompareExchange(t)
               \/ OnceMake(t) \/ OnceEnter(t) \/ OncePublish(t)
               \/ OnceFinish(t) \/ OnceLeave(t)
               \/ OnceJoin(t) \/ OncePart(t)
=============================================================================
