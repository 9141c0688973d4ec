------------------------------- MODULE Timing -------------------------------
(***************************************************************************)
(* The times of a thread: what the constructor and the setters of thread   *)
(* leave, how long Sleep waits, and the millisecond timer.  All numbers    *)
(* are unsigned and wrap at Wrap, 2^32 in the program.                     *)
(***************************************************************************)
EXTENDS Integers

CONSTANTS Wrap,                \* one more than the largest unsigned int
          MIN_SLEEP_TIME_MS,
          RAND_MAX             \* external: the largest result of rand

ASSUME TimingAssumption ==
    /\ Wrap \in Nat \ {0} /\ RAND_MAX \in Nat
    /\ MIN_SLEEP_TIME_MS \in Nat /\ 0 < MIN_SLEEP_TIME_MS /\ MIN_SLEEP_TIME_MS < Wrap

Unsigned == 0 .. Wrap - 1

\* Mutant: only the sleep time has a limit.
ConstructedUnclamped(SleepMS, SleepHystereseMS) ==
    [m_SleepMS |-> IF SleepMS <= MIN_SLEEP_TIME_MS THEN MIN_SLEEP_TIME_MS ELSE SleepMS,
     m_SleepHystereseMS |-> SleepHystereseMS]

\* thread::thread: the sleep time has a minimum, the hysteresis is smaller.
Constructed(SleepMS, SleepHystereseMS) ==
    LET sleep == IF SleepMS <= MIN_SLEEP_TIME_MS THEN MIN_SLEEP_TIME_MS ELSE SleepMS
    IN  [m_SleepMS |-> sleep,
         m_SleepHystereseMS |-> IF SleepHystereseMS >= sleep THEN sleep \div 2
                                                             ELSE SleepHystereseMS]

\* SetCycleTime and SetHystereseTime, for a configured int that is not -1.
Set(times, CycleTime, HystereseTime) ==
    [m_SleepMS |-> IF CycleTime = -1 THEN times.m_SleepMS ELSE CycleTime % Wrap,
     m_SleepHystereseMS |-> IF HystereseTime = -1 THEN times.m_SleepHystereseMS
                                                  ELSE HystereseTime % Wrap]

\* UTIL::GetRandom, for each result of rand.
GetRandom(Min, Max, rand) == ((rand % Max) + Min) % Wrap

\* What thread::Sleep passes to TIMER::Sleep after a round of RoundtripTimeMs,
\* for two results of rand.
Sleep(times, sign, rand, RoundtripTimeMs) ==
    LET random == GetRandom(0, times.m_SleepHystereseMS, rand)
        wished == IF times.m_SleepHystereseMS = 0 THEN times.m_SleepMS
                  ELSE IF GetRandom(1, 2, sign) = 1 THEN (times.m_SleepMS + random) % Wrap
                  ELSE (times.m_SleepMS - random) % Wrap
    IN  IF RoundtripTimeMs = 0 THEN wished
        ELSE IF wished > RoundtripTimeMs THEN wished - RoundtripTimeMs
        ELSE 1

\* TIMER::Start and Elapsed: the clock in milliseconds, cut to the width of tmr.
GetTicker(clock) == clock % Wrap
Elapsed(Timer, clock) == (GetTicker(clock) - Timer) % Wrap

-----------------------------------------------------------------------------
(* Properties *)

\* Sleep keeps its promise, "sleep for m_SleepMS +/- m_SleepHystereseMS"
\* (thread.h:35), for these times, the round included, and sleeps 1 ms at
\* least: the sleep never wraps around.
SleepsAsConfigured(times) ==
    \A sign, rand \in 0 .. RAND_MAX : \A roundtrip \in Unsigned :
        LET sleep == Sleep(times, sign, rand, roundtrip)
        IN  /\ sleep \in 0 .. times.m_SleepMS + times.m_SleepHystereseMS \union {1}
            /\ sleep + roundtrip >= times.m_SleepMS - times.m_SleepHystereseMS

=============================================================================
