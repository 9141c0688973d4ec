----------------------------- MODULE ThreadTimes -----------------------------
(***************************************************************************)
(* The times a thread is given one after the other: those its constructor  *)
(* is called with, then what the configuration sets.                       *)
(***************************************************************************)
EXTENDS Timing, Sequences

CONSTANT Times           \* milliseconds in constructors and the configuration

\* Two times add up to an unsigned number, about 25 days each in the program,
\* and rand reaches every number below a time: both are ints there, and RAND_MAX
\* is the largest one.
ASSUME TimesAssumption ==
    \A a, b \in Times \union {MIN_SLEEP_TIME_MS} :
        a \in Nat /\ a + b < Wrap /\ a <= RAND_MAX + 1

VARIABLE given           \* the times so far

TimesInit == given = <<>>

\* The sleep time and hysteresis a thread is constructed with, then those of
\* the configuration, -1 for one that is not there.
GiveTime(ms) ==
    /\ Len(given) < 4
    /\ ms = -1 => Len(given) >= 2
    /\ given' = Append(given, ms)

TimesNext == \E ms \in Times \union {-1} : GiveTime(ms)

TimesSpec == TimesInit /\ [][TimesNext]_given

-----------------------------------------------------------------------------
(* Properties *)

\* With the times of its constructor a thread keeps "sleep for m_SleepMS +/-
\* m_SleepHystereseMS" (thread.h:35), whatever rand returns and however long the
\* round took: the clamps hold the hysteresis below the sleep time.  The setters
\* have no clamps.  That the hysteresis "is not allowed to be higher"
\* (thread.cpp:25) is left to the configuration, and a cycle time alone breaks it
\* if it is below the hysteresis of the constructor.  With a hysteresis from two
\* milliseconds above the sleep time on, and no smaller one, the unsigned
\* difference wraps around for some rand, and the thread sleeps for weeks.
SleepsInRange ==
    Len(given) = 4 =>
        LET times == Set(Constructed(given[1], given[2]), given[3], given[4])
        IN  /\ SleepsAsConfigured(times) <=> times.m_SleepHystereseMS <= times.m_SleepMS + 1
            /\ given[3] = -1 /\ given[4] = -1 => times.m_SleepHystereseMS < times.m_SleepMS

=============================================================================
