\* Two takers, one timed taker, three givers that signal or broadcast.
CONSTANTS
    Threads <- MCThreads
    Takers <- MCTakers
    TimedTakers <- MCTimedTakers
    Givers <- MCGivers
SPECIFICATION FairSpec
INVARIANTS CondTypeOK CountIsExact
PROPERTIES WakeUpsArrive
\* The threads end, and a taker without an item waits for ever.
CHECK_DEADLOCK FALSE
