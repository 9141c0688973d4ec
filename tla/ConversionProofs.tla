-------------------------- MODULE ConversionProofs --------------------------
(***************************************************************************)
(* What the program computes from what it is given, for every value: the   *)
(* time a thread sleeps, the message that Parse reads from an event of the *)
(* radio, the string that dump_escaped writes and scan_string reads, and   *)
(* the line that sendMessage sends and ReceiveLine receives.               *)
(***************************************************************************)
EXTENDS ThreadTimes, JsonStrings, Lines, RadioEvents, SequenceLemmas

-----------------------------------------------------------------------------
(* The times of a thread *)

\* A number below the modulus is left alone, and a remainder is below it.
LEMMA ModSmall ==
    ASSUME NEW n \in Nat, NEW m \in Nat \ {0}, n < m
    PROVE  n % m = n
  BY Z3

LEMMA ModRange ==
    ASSUME NEW n \in Nat, NEW m \in Nat \ {0}
    PROVE  n % m \in 0 .. m - 1
  BY Z3

\* GetRandom (util.cpp:14) returns a number below its second argument when
\* the first is 0.
LEMMA RandomBelow ==
    ASSUME NEW bound \in Nat \ {0}, bound < Wrap, NEW rand \in 0 .. RAND_MAX
    PROVE  GetRandom(0, bound, rand) \in 0 .. bound - 1
  <1> DEFINE r == rand % bound
  <1>1. r \in 0 .. bound - 1  BY ModRange, TimingAssumption
  <1> HIDE DEF r
  <1>2. r % Wrap = r
    BY <1>1, ModSmall, TimingAssumption
  <1> QED  BY <1>1, <1>2 DEF GetRandom, r

\* The sleep of a thread (thread.cpp:66) stays within its sleep time plus or
\* minus its hysteresis, whatever rand returns and however long the round
\* took, as long as every number below the hysteresis, the largest that rand
\* takes off, is not above the sleep time.
THEOREM SleepInRange ==
    ASSUME NEW times \in [m_SleepMS : Nat, m_SleepHystereseMS : Nat],
           times.m_SleepHystereseMS <= times.m_SleepMS + 1,
           times.m_SleepMS + times.m_SleepHystereseMS < Wrap
    PROVE  SleepsAsConfigured(times)
  <1> DEFINE s == times.m_SleepMS
             h == times.m_SleepHystereseMS
  <1>1. s \in Nat /\ h \in Nat  OBVIOUS
  <1>2. h <= s + 1 /\ s + h < Wrap  OBVIOUS
  <1> SUFFICES ASSUME NEW sign \in 0 .. RAND_MAX, NEW rand \in 0 .. RAND_MAX,
                      NEW roundtrip \in Unsigned
               PROVE  LET sleep == Sleep(times, sign, rand, roundtrip)
                      IN  /\ sleep \in 0 .. s + h \union {1}
                          /\ sleep + roundtrip >= s - h
    BY DEF SleepsAsConfigured
  <1> DEFINE random == GetRandom(0, h, rand)
             wished == IF h = 0 THEN s
                       ELSE IF GetRandom(1, 2, sign) = 1 THEN (s + random) % Wrap
                       ELSE (s - random) % Wrap
  <1>3. wished \in 0 .. s + h /\ wished >= s - h
    <2>1. CASE h = 0
      <3>1. wished = s  BY <2>1
      <3> HIDE DEF s, h, wished
      <3> QED  BY <1>1, <2>1, <3>1
    <2>2. CASE h # 0
      <3>1. random \in 0 .. h - 1
        BY <1>1, <1>2, <2>2, RandomBelow, TimingAssumption
      <3> HIDE DEF s, h, random
      <3>2. (s + random) % Wrap = s + random
        <4>1. s + random \in Nat /\ s + random < Wrap
          BY <1>1, <1>2, <3>1, TimingAssumption
        <4> QED  BY <4>1, ModSmall, TimingAssumption
      <3>3. (s - random) % Wrap = s - random
        <4>1. s - random \in Nat /\ s - random < Wrap
          BY <1>1, <1>2, <3>1, TimingAssumption
        <4> QED  BY <4>1, ModSmall, TimingAssumption
      <3>4. wished = s + random \/ wished = s - random
        BY <2>2, <3>2, <3>3
      <3> HIDE DEF wished
      <3> QED  BY <1>1, <1>2, <3>1, <3>4
    <2> HIDE DEF wished
    <2> QED  BY <2>1, <2>2
  <1>4. roundtrip \in Nat  BY TimingAssumption DEF Unsigned
  <1>5. Sleep(times, sign, rand, roundtrip) =
          IF roundtrip = 0 THEN wished
          ELSE IF wished > roundtrip THEN wished - roundtrip ELSE 1
    BY DEF Sleep
  <1> HIDE DEF s, h, wished
  <1> QED  BY <1>1, <1>2, <1>3, <1>4, <1>5, TimingAssumption

\* A hysteresis that is larger still wraps the sleep around for some results of
\* rand (thread.cpp:79): the thread would sleep longer than sleep time and
\* hysteresis together.
THEOREM SleepWraps ==
    ASSUME NEW times \in [m_SleepMS : Nat, m_SleepHystereseMS : Nat],
           times.m_SleepHystereseMS > times.m_SleepMS + 1,
           2 * times.m_SleepHystereseMS < Wrap,
           times.m_SleepHystereseMS <= RAND_MAX + 1
    PROVE  ~SleepsAsConfigured(times)
  <1> DEFINE s == times.m_SleepMS
             h == times.m_SleepHystereseMS
             rand == h - 1
  <1>1. s \in Nat /\ h \in Nat /\ h > s + 1 /\ 2 * h < Wrap /\ h <= RAND_MAX + 1
    OBVIOUS
  <1>2. 1 \in 0 .. RAND_MAX /\ rand \in 0 .. RAND_MAX /\ 0 \in Unsigned
    BY <1>1, TimingAssumption DEF Unsigned
  <1>3. GetRandom(1, 2, 1) = 2
    <2>1. 1 % 2 = 1  OBVIOUS
    <2>2. 2 % Wrap = 2
      <3>1. 2 < Wrap  BY <1>1, TimingAssumption
      <3> QED  BY <3>1, ModSmall, TimingAssumption
    <2> QED  BY <2>1, <2>2 DEF GetRandom
  <1> HIDE DEF s, h
  <1>4. GetRandom(0, h, rand) = h - 1
    <2>1. rand % h = h - 1  BY <1>1, ModSmall
    <2>2. (h - 1) % Wrap = h - 1  BY <1>1, ModSmall, TimingAssumption
    <2> QED  BY <1>1, <2>1, <2>2 DEF GetRandom
  <1>5. (s - (h - 1)) % Wrap = Wrap + s - h + 1
    BY <1>1, TimingAssumption, Z3
  <1>6. Sleep(times, 1, rand, 0) = (s - (h - 1)) % Wrap
    <2>1. h # 0 /\ GetRandom(1, 2, 1) # 1  BY <1>1, <1>3
    <2> HIDE DEF rand
    <2> QED  BY <1>4, <2>1 DEF Sleep, s, h
  <1>7. Sleep(times, 1, rand, 0) = Wrap + s - h + 1
    BY <1>5, <1>6
  <1>8. Wrap + s - h + 1 \notin 0 .. s + h \union {1}
    BY <1>1, TimingAssumption
  <1> HIDE DEF rand
  <1>9. SleepsAsConfigured(times) => Sleep(times, 1, rand, 0) \in 0 .. s + h \union {1}
    BY <1>2 DEF SleepsAsConfigured, s, h
  <1> QED  BY <1>7, <1>8, <1>9

\* The constructor (thread.cpp:14) leaves a sleep time of at least
\* MIN_SLEEP_TIME_MS and a hysteresis below it, whatever it is given.
THEOREM ConstructorClamps ==
    ASSUME NEW SleepMS \in Unsigned, NEW SleepHystereseMS \in Unsigned
    PROVE  LET times == Constructed(SleepMS, SleepHystereseMS)
           IN  /\ times \in [m_SleepMS : Unsigned, m_SleepHystereseMS : Unsigned]
               /\ times.m_SleepMS >= MIN_SLEEP_TIME_MS
               /\ times.m_SleepHystereseMS < times.m_SleepMS
  <1> DEFINE sleep == IF SleepMS <= MIN_SLEEP_TIME_MS THEN MIN_SLEEP_TIME_MS ELSE SleepMS
  <1>1. sleep \in Unsigned /\ sleep >= MIN_SLEEP_TIME_MS /\ sleep \in Nat \ {0}
    BY TimingAssumption DEF Unsigned
  <1>2. Constructed(SleepMS, SleepHystereseMS) =
          [m_SleepMS |-> sleep,
           m_SleepHystereseMS |-> IF SleepHystereseMS >= sleep THEN sleep \div 2
                                                               ELSE SleepHystereseMS]
    BY DEF Constructed
  <1> HIDE DEF sleep
  <1>3. sleep \div 2 \in Nat /\ sleep \div 2 < sleep
    BY <1>1, Z3
  <1> QED  BY <1>1, <1>2, <1>3, TimingAssumption DEF Unsigned

\* A thread that keeps the times of its constructor sleeps as long as its
\* header promises, "sleep for m_SleepMS +/- m_SleepHystereseMS" (thread.h:35),
\* unless their sum does not fit an unsigned int.
THEOREM ConstructedSleeps ==
    ASSUME NEW SleepMS \in Unsigned, NEW SleepHystereseMS \in Unsigned,
           LET times == Constructed(SleepMS, SleepHystereseMS)
           IN  times.m_SleepMS + times.m_SleepHystereseMS < Wrap
    PROVE  SleepsAsConfigured(Constructed(SleepMS, SleepHystereseMS))
  <1> DEFINE times == Constructed(SleepMS, SleepHystereseMS)
  <1>1. /\ times \in [m_SleepMS : Unsigned, m_SleepHystereseMS : Unsigned]
        /\ times.m_SleepHystereseMS < times.m_SleepMS
    BY ConstructorClamps
  <1>2. times.m_SleepMS + times.m_SleepHystereseMS < Wrap  OBVIOUS
  <1> HIDE DEF times
  <1>3. /\ times \in [m_SleepMS : Nat, m_SleepHystereseMS : Nat]
        /\ times.m_SleepHystereseMS <= times.m_SleepMS + 1
    BY <1>1, TimingAssumption DEF Unsigned
  <1>4. SleepsAsConfigured(times)  BY <1>2, <1>3, SleepInRange
  <1> QED  BY <1>4 DEF times

(* What a thread has been given so far.                                      *)
GivenInv ==
    /\ given \in Seq(Times \union {-1})
    /\ \A i \in 1 .. Len(given) : i <= 2 => given[i] \in Times

(* The constructor is given times, the configuration may leave them out.     *)
LEMMA GivenInvariance == TimesSpec => []GivenInv
<1>1. TimesInit => GivenInv
  BY DEF TimesInit, GivenInv
<1>2. GivenInv /\ [TimesNext]_given => GivenInv'
  <2> SUFFICES ASSUME GivenInv, [TimesNext]_given PROVE GivenInv'
    OBVIOUS
  <2>1. CASE UNCHANGED given
    BY <2>1 DEF GivenInv
  <2>2. ASSUME NEW ms \in Times \union {-1}, GiveTime(ms) PROVE GivenInv'
    <3>1. given' = Append(given, ms) /\ (ms = -1 => Len(given) >= 2)
      BY <2>2 DEF GiveTime
    <3>2. /\ given' \in Seq(Times \union {-1}) /\ Len(given') = Len(given) + 1
          /\ given'[Len(given) + 1] = ms /\ Len(given) \in Nat
          /\ \A i \in 1 .. Len(given) : given'[i] = given[i]
      BY <3>1, AppendProperties, LenProperties DEF GivenInv
    <3>3. ASSUME NEW i \in 1 .. Len(given'), i <= 2 PROVE given'[i] \in Times
      <4>1. CASE i \in 1 .. Len(given)
        BY <3>2, <3>3, <4>1 DEF GivenInv
      <4>2. CASE i = Len(given) + 1
        BY <2>2, <3>1, <3>2, <3>3, <4>2
      <4> QED
        BY <3>2, <4>1, <4>2
    <3> QED
      BY <3>2, <3>3 DEF GivenInv
  <2> QED
    BY <2>1, <2>2 DEF TimesNext
<1> QED
  BY <1>1, <1>2, PTL DEF TimesSpec

(* For all times a thread may be constructed with and the configuration may  *)
(* then set or leave out (thread.cpp:14-45), it sleeps as it should exactly  *)
(* if what rand takes off is not above the sleep time; with the times of its *)
(* constructor alone it always does.                                         *)
THEOREM TimesInRange == TimesSpec => []SleepsInRange
<1>1. GivenInv => SleepsInRange
  <2> SUFFICES ASSUME GivenInv, Len(given) = 4 PROVE SleepsInRange
    BY DEF SleepsInRange
  <2>1. /\ given[1] \in Times /\ given[2] \in Times
        /\ given[3] \in Times \union {-1} /\ given[4] \in Times \union {-1}
    <3>1. /\ 1 \in 1 .. Len(given) /\ 2 \in 1 .. Len(given)
          /\ 3 \in 1 .. Len(given) /\ 4 \in 1 .. Len(given)
      OBVIOUS
    <3>2. given \in Seq(Times \union {-1})
      BY DEF GivenInv
    <3>3. given[3] \in Times \union {-1} /\ given[4] \in Times \union {-1}
      BY <3>1, <3>2, ElementOfSeq
    <3> QED
      BY <3>1, <3>3 DEF GivenInv
  <2> DEFINE made == Constructed(given[1], given[2])
             times == Set(made, given[3], given[4])
             Limits == Times \union {MIN_SLEEP_TIME_MS}
             s == times.m_SleepMS
             h == times.m_SleepHystereseMS
  <2>2. \A t, u \in Limits : t \in Nat /\ t + u < Wrap /\ t <= RAND_MAX + 1
    BY TimesAssumption
  <2>3. \A t \in Times : t \in Nat /\ t < Wrap /\ t \in Unsigned
    BY <2>2, TimingAssumption DEF Unsigned
  <2>4. /\ made \in [m_SleepMS : Unsigned, m_SleepHystereseMS : Unsigned]
        /\ made.m_SleepHystereseMS < made.m_SleepMS
    BY <2>1, <2>3, ConstructorClamps
  <2>5. made.m_SleepMS \in Limits
    BY <2>1 DEF Constructed
  <2>6. made.m_SleepMS \in Nat /\ made.m_SleepHystereseMS \in Nat
    BY <2>4, TimingAssumption DEF Unsigned
  <2> HIDE DEF made, Limits
  <2>7. \E t \in Limits : s <= t /\ s \in Nat
    <3>1. CASE given[3] = -1
      <4>1. s = made.m_SleepMS
        BY <3>1 DEF Set
      <4> QED
        BY <2>5, <2>6, <4>1
    <3>2. CASE given[3] # -1
      <4>1. given[3] \in Times /\ given[3] \in Limits
        BY <2>1, <3>2 DEF Limits
      <4>2. s = given[3]
        <5>1. s = given[3] % Wrap
          BY <3>2 DEF Set
        <5> QED
          BY <2>3, <4>1, <5>1, ModSmall, TimingAssumption
      <4> QED
        BY <2>3, <4>1, <4>2
    <3> QED
      BY <3>1, <3>2
  <2>8. \E t \in Limits : h <= t /\ h \in Nat
    <3>1. CASE given[4] = -1
      <4>1. h = made.m_SleepHystereseMS
        BY <3>1 DEF Set
      <4> QED
        BY <2>4, <2>5, <2>6, <4>1
    <3>2. CASE given[4] # -1
      <4>1. given[4] \in Times /\ given[4] \in Limits
        BY <2>1, <3>2 DEF Limits
      <4>2. h = given[4]
        <5>1. h = given[4] % Wrap
          BY <3>2 DEF Set
        <5> QED
          BY <2>3, <4>1, <5>1, ModSmall, TimingAssumption
      <4> QED
        BY <2>3, <4>1, <4>2
    <3> QED
      BY <3>1, <3>2
  <2>9. times \in [m_SleepMS : Nat, m_SleepHystereseMS : Nat]
    <3>1. times = [m_SleepMS |-> s, m_SleepHystereseMS |-> h]
      BY DEF Set
    <3> QED
      BY <2>7, <2>8, <3>1
  <2> HIDE DEF times
  <2>10. s + h < Wrap /\ 2 * h < Wrap /\ h <= RAND_MAX + 1
    <3>1. PICK t \in Limits : s <= t /\ s \in Nat
      BY <2>7
    <3>2. PICK u \in Limits : h <= u /\ h \in Nat
      BY <2>8
    <3>3. /\ t \in Nat /\ u \in Nat /\ t + u < Wrap /\ u + u < Wrap /\ u <= RAND_MAX + 1
      BY <2>2
    <3> QED
      BY <3>1, <3>2, <3>3, TimingAssumption
  <2>11. SleepsAsConfigured(times) <=> h <= s + 1
    <3>1. CASE h <= s + 1
      BY <2>9, <2>10, <3>1, SleepInRange
    <3>2. CASE h > s + 1
      BY <2>9, <2>10, <3>2, SleepWraps
    <3> QED
      BY <2>7, <2>8, <3>1, <3>2
  <2>12. given[3] = -1 /\ given[4] = -1 => h < s
    BY <2>4 DEF times, Set
  <2> QED
    BY <2>11, <2>12 DEF SleepsInRange, times, made
<1> QED
  BY <1>1, GivenInvariance, PTL

-----------------------------------------------------------------------------
(* Sequences in a row *)

\* FlattenSeq is the concatenation of the elements, one after the other.
FlattensTo(seqs, f) ==
    /\ f = [i \in 1 .. Len(seqs) |-> IF i = 1 THEN seqs[i] ELSE f[i - 1] \o seqs[i]]
    /\ FlattenSeq(seqs) = IF Len(seqs) = 0 THEN seqs ELSE f[Len(seqs)]

\* FlattenSeq is the concatenation of the elements, one after the other.
LEMMA FlattenInOrder ==
    ASSUME NEW S, NEW seqs \in Seq(S)
    PROVE  \E f : FlattensTo(seqs, f)
<1> DEFINE Is(f, n) == f = [i \in 1 .. n |-> IF i = 1 THEN seqs[i] ELSE f[i - 1] \o seqs[i]]
           T == {n \in Nat : \E f : Is(f, n)}
<1>1. 0 \in T
  <2>1. Is([i \in 1 .. 0 |-> <<>>], 0)
    OBVIOUS
  <2> QED
    BY <2>1
<1>2. ASSUME NEW n \in Nat, n \in T PROVE n + 1 \in T
  <2>1. PICK f : Is(f, n)
    BY <1>2
  <2> DEFINE g == [i \in 1 .. n + 1 |-> IF i <= n THEN f[i]
                                        ELSE IF i = 1 THEN seqs[i] ELSE f[i - 1] \o seqs[i]]
  <2>2. \A i \in 1 .. n : g[i] = f[i]
    OBVIOUS
  <2>3. ASSUME NEW i \in 1 .. n + 1
        PROVE  g[i] = IF i = 1 THEN seqs[i] ELSE g[i - 1] \o seqs[i]
    <3>1. g[i] = IF i = 1 THEN seqs[i] ELSE f[i - 1] \o seqs[i]
      <4>1. CASE i <= n
        <5>1. i \in 1 .. n
          BY <4>1
        <5>2. f[i] = IF i = 1 THEN seqs[i] ELSE f[i - 1] \o seqs[i]
          BY <2>1, <5>1, Zenon
        <5> HIDE DEF g
        <5> QED
          BY <2>2, <5>1, <5>2
      <4>2. CASE ~(i <= n)
        BY <4>2
      <4> QED
        BY <4>1, <4>2
    <3>2. i # 1 => g[i - 1] = f[i - 1]
      <4>1. i # 1 => i - 1 \in 1 .. n
        OBVIOUS
      <4> HIDE DEF g
      <4> QED
        BY <2>2, <4>1
    <3> HIDE DEF g
    <3> QED
      BY <3>1, <3>2
  <2>4. g = [i \in 1 .. n + 1 |-> g[i]]
    OBVIOUS
  <2> HIDE DEF g
  <2>5. Is(g, n + 1)
    BY <2>3, <2>4
  <2> HIDE DEF Is
  <2> QED
    BY <2>5
<1> HIDE DEF T
<1>3. Len(seqs) \in T
  BY <1>1, <1>2, Induction, LenProperties
<1>4. \E f : Is(f, Len(seqs))
  BY <1>3 DEF T
<1> DEFINE h == CHOOSE f : Is(f, Len(seqs))
<1>5. Is(h, Len(seqs))
  <2> HIDE DEF Is
  <2> QED
    BY <1>4
<1>6. FlattenSeq(seqs) = IF Len(seqs) = 0 THEN seqs ELSE h[Len(seqs)]
  BY DEF FlattenSeq
<1> HIDE DEF h
<1>7. FlattensTo(seqs, h)
  BY <1>5, <1>6 DEF FlattensTo
<1> QED
  BY <1>7

\* No element flattens to nothing, one more is put behind the others.
LEMMA FlattenAppend ==
    ASSUME NEW S, NEW seqs \in Seq(Seq(S)), NEW x \in Seq(S)
    PROVE  /\ FlattenSeq(seqs) \in Seq(S)
           /\ FlattenSeq(Append(seqs, x)) = FlattenSeq(seqs) \o x
<1> DEFINE n == Len(seqs)
           more == Append(seqs, x)
<1>1. n \in Nat /\ \A i \in 1 .. n : seqs[i] \in Seq(S)
  BY LenProperties, ElementOfSeq
<1>2. more \in Seq(Seq(S)) /\ Len(more) = n + 1 /\ more[n + 1] = x
      /\ \A i \in 1 .. n : more[i] = seqs[i]
  BY AppendProperties
<1>3. PICK f : FlattensTo(seqs, f)
  BY FlattenInOrder
<1>4. PICK g : FlattensTo(more, g)
  BY <1>2, FlattenInOrder
<1> HIDE DEF n, more
<1>5. \A i \in 1 .. n : f[i] = IF i = 1 THEN seqs[i] ELSE f[i - 1] \o seqs[i]
  BY <1>3, Zenon DEF FlattensTo, n
<1>6. \A i \in 1 .. n + 1 : g[i] = IF i = 1 THEN more[i] ELSE g[i - 1] \o more[i]
  BY <1>2, <1>4, Zenon DEF FlattensTo
<1> DEFINE T == {i \in Nat : i \in 1 .. n => g[i] = f[i] /\ f[i] \in Seq(S)}
<1>7. ASSUME NEW i \in Nat, i \in T PROVE i + 1 \in T
  <2> SUFFICES ASSUME i + 1 \in 1 .. n PROVE g[i + 1] = f[i + 1] /\ f[i + 1] \in Seq(S)
    OBVIOUS
  <2>1. i + 1 \in 1 .. n + 1 /\ (i + 1) - 1 = i /\ (i + 1 # 1 => i \in 1 .. n)
    BY <1>1
  <2>2. CASE i + 1 = 1
    BY <1>1, <1>2, <1>5, <1>6, <2>1, <2>2
  <2>3. CASE i + 1 # 1
    <3>1. g[i] = f[i] /\ f[i] \in Seq(S)
      BY <1>7, <2>1, <2>3
    <3>2. f[i + 1] = f[i] \o seqs[i + 1] /\ seqs[i + 1] \in Seq(S)
      BY <1>1, <1>5, <2>1, <2>3
    <3>3. g[i + 1] = g[i] \o seqs[i + 1]
      BY <1>2, <1>6, <2>1, <2>3
    <3> QED
      BY <3>1, <3>2, <3>3, ConcatProperties
  <2> QED
    BY <2>2, <2>3
<1>8. Nat \subseteq T
  <2>1. 0 \in T
    OBVIOUS
  <2> HIDE DEF T
  <2> QED
    BY <1>7, <2>1, Induction
<1>9. FlattenSeq(more) = g[n + 1]
  BY <1>1, <1>2, <1>4 DEF FlattensTo
<1>10. CASE n = 0
  <2>1. seqs = <<>> /\ <<>> \in Seq(S)
    BY <1>10, EmptySeq DEF n
  <2>2. FlattenSeq(seqs) = <<>>
    BY <1>3, <1>10, <2>1 DEF FlattensTo, n
  <2>3. g[n + 1] = x
    BY <1>2, <1>6, <1>10
  <2> QED
    BY <1>9, <2>1, <2>2, <2>3, ConcatEmptySeq DEF more
<1>11. CASE n # 0
  <2>1. n \in 1 .. n /\ n + 1 \in 1 .. n + 1 /\ n + 1 # 1 /\ (n + 1) - 1 = n
    BY <1>1, <1>11
  <2>2. g[n] = f[n] /\ f[n] \in Seq(S)
    BY <1>1, <1>8, <2>1
  <2>3. FlattenSeq(seqs) = f[n]
    BY <1>3, <1>11 DEF FlattensTo, n
  <2>4. g[n + 1] = g[n] \o x
    BY <1>2, <1>6, <2>1
  <2> QED
    BY <1>9, <2>2, <2>3, <2>4 DEF more
<1> QED
  BY <1>10, <1>11

\* Nothing flattens to nothing.
LEMMA FlattenEmpty == FlattenSeq(<<>>) = <<>>
<1>1. <<>> \in Seq({}) /\ Len(<<>>) = 0
  BY EmptySeq
<1>2. PICK f : FlattensTo(<<>>, f)
  BY <1>1, FlattenInOrder
<1> QED
  BY <1>1, <1>2 DEF FlattensTo

-----------------------------------------------------------------------------
(* Tokens in the text of an event *)

Free == Byte \ {Colon, Semicolon}
Entries == Seq(Free) \X Seq(Free)
Entry(e) == e[1] \o <<Colon>> \o e[2] \o <<Semicolon>>
EventBytes(es) == FlattenSeq([i \in DOMAIN es |-> Entry(es[i])])

\* The entry k:v; stands in d behind the first p bytes.
HasEntry(d, p, k, v) ==
    /\ p + Len(k) + Len(v) + 2 <= Len(d)
    /\ \A j \in 1 .. Len(k) : d[p + j] = k[j]
    /\ d[p + Len(k) + 1] = Colon
    /\ \A j \in 1 .. Len(v) : d[p + Len(k) + 1 + j] = v[j]
    /\ d[p + Len(k) + Len(v) + 2] = Semicolon

StartsWith(d, t) == Len(t) <= Len(d) /\ \A j \in 1 .. Len(t) : d[j] = t[j]

\* An entry is bytes that end in a semicolon, with the key and the value in
\* their places.
LEMMA EntryBytes ==
    ASSUME NEW e \in Entries
    PROVE  /\ Entry(e) \in Seq(Byte)
           /\ Len(Entry(e)) = Len(e[1]) + Len(e[2]) + 2
           /\ HasEntry(Entry(e), 0, e[1], e[2])
<1> DEFINE k == e[1]
           v == e[2]
           c == <<Colon>>
           s == <<Semicolon>>
<1>1. k \in Seq(Byte) /\ v \in Seq(Byte)
  <2>1. k \in Seq(Free) /\ v \in Seq(Free) /\ Free \subseteq Byte
    BY DEF Entries, Free
  <2> QED
    BY <2>1, SeqMonotone
<1>2. /\ c \in Seq(Byte) /\ s \in Seq(Byte)
      /\ Len(c) = 1 /\ Len(s) = 1 /\ c[1] = Colon /\ s[1] = Semicolon
  BY DEF Byte, Colon, Semicolon
<1>3. Len(k) \in Nat /\ Len(v) \in Nat
  BY <1>1, LenProperties
<1> DEFINE a == k \o c \o v
           w == a \o s
<1> HIDE DEF k, v, c, s
<1>4. a \in Seq(Byte) /\ InARow(a, k, c, v)
  BY <1>1, <1>2, ConcatInARow
<1> HIDE DEF a
<1>5. /\ w \in Seq(Byte) /\ Len(w) = Len(a) + 1
      /\ \A i \in 1 .. Len(a) + 1 : w[i] = IF i <= Len(a) THEN a[i] ELSE s[i - Len(a)]
  <2>1. /\ w \in Seq(Byte) /\ Len(w) = Len(a) + Len(s)
        /\ \A i \in 1 .. Len(a) + Len(s) : w[i] = IF i <= Len(a) THEN a[i] ELSE s[i - Len(a)]
    BY <1>2, <1>4, ConcatProperties
  <2> HIDE DEF w
  <2> QED
    BY <1>2, <2>1
<1> HIDE DEF w
<1>6. Len(a) = Len(k) + Len(v) + 1
  BY <1>2, <1>3, <1>4 DEF InARow
<1>7. ASSUME NEW j \in 1 .. Len(k) PROVE w[0 + j] = k[j]
  <2>1. j \in 1 .. Len(k) + Len(c) + Len(v) /\ j <= Len(a) /\ j \in 1 .. Len(a) + 1 /\ 0 + j = j
    BY <1>2, <1>3, <1>6
  <2> QED
    BY <1>4, <1>5, <2>1 DEF InARow
<1>8. w[0 + Len(k) + 1] = Colon
  <2> DEFINE j == Len(k) + 1
  <2>1. /\ j \in 1 .. Len(k) + Len(c) + Len(v) /\ j <= Len(a) /\ j \in 1 .. Len(a) + 1
        /\ 0 + Len(k) + 1 = j /\ ~(j <= Len(k)) /\ j <= Len(k) + Len(c) /\ j - Len(k) = 1
    BY <1>2, <1>3, <1>6
  <2> HIDE DEF j
  <2> QED
    BY <1>2, <1>4, <1>5, <2>1 DEF InARow
<1>9. ASSUME NEW i \in 1 .. Len(v) PROVE w[0 + Len(k) + 1 + i] = v[i]
  <2> DEFINE j == Len(k) + 1 + i
  <2>1. /\ j \in 1 .. Len(k) + Len(c) + Len(v) /\ j <= Len(a) /\ j \in 1 .. Len(a) + 1
        /\ 0 + Len(k) + 1 + i = j /\ ~(j <= Len(k)) /\ ~(j <= Len(k) + Len(c))
        /\ j - Len(k) - Len(c) = i
    BY <1>2, <1>3, <1>6
  <2> HIDE DEF j
  <2> QED
    BY <1>4, <1>5, <2>1 DEF InARow
<1>10. w[0 + Len(k) + Len(v) + 2] = Semicolon
  <2> DEFINE j == Len(k) + Len(v) + 2
  <2>1. /\ j \in 1 .. Len(a) + 1 /\ 0 + Len(k) + Len(v) + 2 = j /\ ~(j <= Len(a)) /\ j - Len(a) = 1
    BY <1>3, <1>6
  <2> HIDE DEF j
  <2> QED
    BY <1>2, <1>5, <2>1
<1>11. HasEntry(w, 0, k, v) /\ Len(w) = Len(k) + Len(v) + 2
  BY <1>3, <1>5, <1>6, <1>7, <1>8, <1>9, <1>10 DEF HasEntry
<1>12. w = Entry(e)
  BY DEF w, a, k, v, c, s, Entry
<1> QED
  BY <1>5, <1>11, <1>12 DEF k, v

\* One more field puts its entry behind the text.
LEMMA EventBytesAppend ==
    ASSUME NEW es \in Seq(Entries), NEW e \in Entries
    PROVE  /\ EventBytes(es) \in Seq(Byte)
           /\ EventBytes(Append(es, e)) = EventBytes(es) \o Entry(e)
<1> DEFINE texts == [i \in DOMAIN es |-> Entry(es[i])]
           more == [i \in DOMAIN Append(es, e) |-> Entry(Append(es, e)[i])]
           n == Len(es)
<1>1. n \in Nat /\ DOMAIN es = 1 .. n /\ \A i \in 1 .. n : es[i] \in Entries
  BY LenProperties, ElementOfSeq
<1>2. /\ DOMAIN Append(es, e) = 1 .. n + 1 /\ Append(es, e)[n + 1] = e
      /\ \A i \in 1 .. n : Append(es, e)[i] = es[i]
  <2>1. /\ Append(es, e) \in Seq(Entries) /\ Len(Append(es, e)) = n + 1
        /\ Append(es, e)[n + 1] = e /\ \A i \in 1 .. n : Append(es, e)[i] = es[i]
    BY AppendProperties
  <2> QED
    BY <2>1, LenProperties
<1>3. texts \in [1 .. n -> Seq(Byte)]
  BY <1>1, EntryBytes
<1>4. texts \in Seq(Seq(Byte)) /\ Len(texts) = n
  <2> HIDE DEF texts, n
  <2> QED
    BY <1>1, <1>3, FunctionIsSeq
<1>5. Entry(e) \in Seq(Byte)
  BY EntryBytes
<1>6. more = Append(texts, Entry(e))
  <2>1. more \in [1 .. n + 1 -> Seq(Byte)]
    <3>1. \A i \in 1 .. n + 1 : i \in 1 .. n \/ i = n + 1
      BY <1>1
    <3> HIDE DEF n
    <3>2. \A i \in 1 .. n + 1 : Append(es, e)[i] \in Entries
      BY <1>1, <1>2, <3>1
    <3> QED
      BY <1>2, <3>2, EntryBytes
  <2>2. more \in Seq(Seq(Byte)) /\ Len(more) = n + 1
    <3>1. n + 1 \in Nat
      BY <1>1
    <3> HIDE DEF more, n
    <3> QED
      BY <2>1, <3>1, FunctionIsSeq
  <2>3. /\ Append(texts, Entry(e)) \in Seq(Seq(Byte)) /\ Len(Append(texts, Entry(e))) = n + 1
        /\ \A i \in 1 .. n : Append(texts, Entry(e))[i] = texts[i]
        /\ Append(texts, Entry(e))[n + 1] = Entry(e)
    <3> HIDE DEF texts, n
    <3> QED
      BY <1>4, <1>5, AppendProperties
  <2>4. ASSUME NEW i \in 1 .. n + 1 PROVE more[i] = Append(texts, Entry(e))[i]
    <3>1. CASE i = n + 1
      BY <1>2, <2>3, <3>1
    <3>2. CASE i # n + 1
      <4>1. i \in 1 .. n
        BY <1>1, <3>2
      <4>2. more[i] = Entry(es[i]) /\ texts[i] = Entry(es[i])
        BY <1>1, <1>2, <4>1
      <4> QED
        BY <2>3, <4>1, <4>2
    <3> QED
      BY <3>1, <3>2
  <2> HIDE DEF more, texts, n
  <2> QED
    BY <2>2, <2>3, <2>4, SeqEqual
<1> HIDE DEF texts, more, n
<1>7. FlattenSeq(texts) \in Seq(Byte) /\ FlattenSeq(more) = FlattenSeq(texts) \o Entry(e)
  BY <1>4, <1>5, <1>6, FlattenAppend
<1> QED
  BY <1>7 DEF EventBytes, texts, more

\* No field, no text.
LEMMA EventBytesEmpty == EventBytes(<<>>) = <<>>
<1>1. [i \in DOMAIN <<>> |-> Entry(<<>>[i])] = <<>>
  OBVIOUS
<1> QED
  BY <1>1, FlattenEmpty DEF EventBytes

\* k and a colon stand in d at place i.
TokenAt(d, k, i) ==
    /\ i + Len(k) <= Len(d)
    /\ \A j \in 1 .. Len(k) : d[i + j - 1] = k[j]
    /\ d[i + Len(k)] = Colon

EndsIn(s, k) ==
    Len(k) <= Len(s) /\ \A j \in 1 .. Len(k) : s[Len(s) - Len(k) + j] = k[j]

Closed(d) == Len(d) # 0 => d[Len(d)] = Semicolon

\* Where a token can stand in a text with one more entry: where it stood, or
\* at the end of the new key.
LEMMA TokenInNewEntry ==
    ASSUME NEW d \in Seq(Byte), Closed(d), NEW k \in Seq(Free), NEW key \in Seq(Free),
           NEW value \in Seq(Free), NEW w \in Seq(Byte), StartsWith(w, d),
           HasEntry(w, Len(d), key, value),
           NEW i \in Nat \ {0}, TokenAt(w, k, i),
           i + Len(k) <= Len(d) + Len(key) + Len(value) + 2
    PROVE  \/ TokenAt(d, k, i)
           \/ EndsIn(key, k) /\ i = Len(d) + Len(key) - Len(k) + 1
<1> DEFINE D == Len(d)
           K == Len(k)
           L == Len(key)
           V == Len(value)
           c == i + K
<1>1. D \in Nat /\ K \in Nat /\ L \in Nat /\ V \in Nat /\ c \in Nat \ {0}
  BY LenProperties
<1>2. (\A j \in 1 .. K : w[i + j - 1] = k[j]) /\ w[c] = Colon
  BY DEF TokenAt
<1>3. \A j \in 1 .. D : w[j] = d[j]
  BY DEF StartsWith
<1>4. /\ \A j \in 1 .. L : w[D + j] = key[j]
      /\ \A j \in 1 .. V : w[D + L + 1 + j] = value[j]
      /\ w[D + L + V + 2] = Semicolon
  BY DEF HasEntry
<1>5. /\ \A j \in 1 .. K : k[j] \notin {Colon, Semicolon}
      /\ \A j \in 1 .. L : key[j] \notin {Colon, Semicolon}
      /\ \A j \in 1 .. V : value[j] \notin {Colon, Semicolon}
  BY ElementOfSeq DEF Free
<1>6. Colon # Semicolon
  BY DEF Colon, Semicolon
<1>7. c <= D + L + V + 2
  OBVIOUS
<1>8. D # 0 => d[D] = Semicolon
  BY DEF Closed
<1> HIDE DEF D, K, L, V
<1>9. CASE c <= D
  <2>1. ASSUME NEW j \in 1 .. K PROVE d[i + j - 1] = k[j]
    <3>1. i + j - 1 \in 1 .. D
      BY <1>1, <1>9
    <3> QED
      BY <1>2, <1>3, <3>1
  <2>2. d[i + K] = Colon
    <3>1. c \in 1 .. D
      BY <1>1, <1>9
    <3> QED
      BY <1>2, <1>3, <3>1
  <2> QED
    BY <1>9, <2>1, <2>2 DEF TokenAt, D, K
<1>10. CASE c > D
  <2>1. c = D + L + 1
    <3>1. c \notin D + 1 .. D + L
      <4> SUFFICES ASSUME c \in D + 1 .. D + L PROVE FALSE
        OBVIOUS
      <4>1. c - D \in 1 .. L /\ D + (c - D) = c
        BY <1>1
      <4> HIDE DEF c
      <4> QED
        BY <1>2, <1>4, <1>5, <4>1
    <3>2. c \notin D + L + 2 .. D + L + V + 1
      <4> SUFFICES ASSUME c \in D + L + 2 .. D + L + V + 1 PROVE FALSE
        OBVIOUS
      <4>1. c - (D + L + 1) \in 1 .. V /\ D + L + 1 + (c - (D + L + 1)) = c
        BY <1>1
      <4> HIDE DEF c
      <4> QED
        BY <1>2, <1>4, <1>5, <4>1
    <3>3. c # D + L + V + 2
      BY <1>2, <1>4, <1>6
    <3> HIDE DEF c
    <3> QED
      BY <1>1, <1>7, <1>10, <3>1, <3>2, <3>3
  <2>2. i > D
    <3> SUFFICES ASSUME i <= D PROVE FALSE
      BY <1>1
    <3>1. D # 0 /\ D - i + 1 \in 1 .. K /\ i + (D - i + 1) - 1 = D /\ D \in 1 .. D
      BY <1>1, <1>10
    <3>2. k[D - i + 1] = w[D] /\ w[D] = d[D]
      BY <1>2, <1>3, <3>1
    <3> QED
      BY <1>5, <1>8, <3>1, <3>2
  <2>3. K <= L /\ i = D + L - K + 1
    BY <1>1, <2>1, <2>2
  <2>4. ASSUME NEW j \in 1 .. K PROVE key[L - K + j] = k[j]
    <3>1. L - K + j \in 1 .. L /\ D + (L - K + j) = i + j - 1
      BY <1>1, <2>3
    <3> QED
      BY <1>2, <1>4, <3>1
  <2> QED
    BY <2>3, <2>4 DEF EndsIn, D, K, L
<1> QED
  BY <1>1, <1>9, <1>10

\* Behind a text that begins with another one, an entry stays where it is.
LEMMA EntryBehind ==
    ASSUME NEW d \in Seq(Byte), NEW e \in Entries
    PROVE  /\ d \o Entry(e) \in Seq(Byte)
           /\ Len(d \o Entry(e)) = Len(d) + Len(e[1]) + Len(e[2]) + 2
           /\ StartsWith(d \o Entry(e), d)
           /\ HasEntry(d \o Entry(e), Len(d), e[1], e[2])
<1> DEFINE x == Entry(e)
           w == d \o x
           D == Len(d)
           K == Len(e[1])
           V == Len(e[2])
<1>1. x \in Seq(Byte) /\ Len(x) = K + V + 2 /\ HasEntry(x, 0, e[1], e[2])
  BY EntryBytes
<1>2. D \in Nat /\ K \in Nat /\ V \in Nat
  BY LenProperties DEF Entries
<1> HIDE DEF x
<1>3. /\ w \in Seq(Byte) /\ Len(w) = D + Len(x)
      /\ \A i \in 1 .. D + Len(x) : w[i] = IF i <= D THEN d[i] ELSE x[i - D]
  BY <1>1, ConcatProperties
<1>4. /\ \A j \in 1 .. K : x[0 + j] = e[1][j]
      /\ x[0 + K + 1] = Colon
      /\ \A j \in 1 .. V : x[0 + K + 1 + j] = e[2][j]
      /\ x[0 + K + V + 2] = Semicolon
  BY <1>1 DEF HasEntry
<1> HIDE DEF w, D, K, V
<1>5. Len(w) = D + K + V + 2
  BY <1>1, <1>2, <1>3
<1>6. ASSUME NEW j \in 1 .. D PROVE w[j] = d[j]
  <2>1. j \in 1 .. D + Len(x) /\ j <= D
    BY <1>1, <1>2
  <2> QED
    BY <1>3, <2>1
<1>7. ASSUME NEW j \in 1 .. K + V + 2 PROVE w[D + j] = x[j]
  <2> DEFINE i == D + j
  <2>1. i \in 1 .. D + Len(x) /\ ~(i <= D) /\ i - D = j
    BY <1>1, <1>2
  <2> HIDE DEF i
  <2>2. w[i] = x[i - D]
    BY <1>3, <2>1
  <2> QED
    BY <2>1, <2>2 DEF i
<1>8. ASSUME NEW j \in 1 .. K PROVE w[D + j] = e[1][j]
  <2>1. j \in 1 .. K + V + 2 /\ 0 + j = j
    BY <1>2
  <2> QED
    BY <1>4, <1>7, <2>1
<1>9. w[D + K + 1] = Colon
  <2>1. K + 1 \in 1 .. K + V + 2 /\ D + (K + 1) = D + K + 1 /\ 0 + K + 1 = K + 1
    BY <1>2
  <2> QED
    BY <1>4, <1>7, <2>1
<1>10. ASSUME NEW j \in 1 .. V PROVE w[D + K + 1 + j] = e[2][j]
  <2>1. K + 1 + j \in 1 .. K + V + 2 /\ D + (K + 1 + j) = D + K + 1 + j /\ 0 + K + 1 + j = K + 1 + j
    BY <1>2
  <2> QED
    BY <1>4, <1>7, <2>1
<1>11. w[D + K + V + 2] = Semicolon
  <2>1. K + V + 2 \in 1 .. K + V + 2 /\ D + (K + V + 2) = D + K + V + 2 /\ 0 + K + V + 2 = K + V + 2
    BY <1>2
  <2> QED
    BY <1>4, <1>7, <2>1
<1>12. HasEntry(w, D, e[1], e[2])
  <2>1. D + K + V + 2 <= Len(w)
    BY <1>2, <1>5
  <2> QED
    BY <1>8, <1>9, <1>10, <1>11, <2>1 DEF HasEntry, K, V
<1>13. StartsWith(w, d)
  <2>1. D <= Len(w)
    BY <1>2, <1>5
  <2> QED
    BY <1>6, <2>1 DEF StartsWith, D
<1> QED
  BY <1>3, <1>5, <1>12, <1>13 DEF w, x, D, K, V

\* A text none of whose keys ends in k has no k with a colon.
NoKeyEndsIn(es, k) == \A i \in 1 .. Len(es) : ~EndsIn(es[i][1], k)
NoToken(d, k) == d \in Seq(Byte) /\ Closed(d) /\ \A i \in Nat \ {0} : ~TokenAt(d, k, i)

\* The text of fields none of whose keys ends in k has no k with a colon.
LEMMA NoTokenWithoutKey ==
    ASSUME NEW k \in Seq(Free), NEW es \in Seq(Entries), NoKeyEndsIn(es, k)
    PROVE  NoToken(EventBytes(es), k)
<1> DEFINE T == {n \in Nat : \A s \in Seq(Entries) :
                     Len(s) = n /\ NoKeyEndsIn(s, k) => NoToken(EventBytes(s), k)}
<1>1. 0 \in T
  <2> SUFFICES ASSUME NEW s \in Seq(Entries), Len(s) = 0 PROVE NoToken(EventBytes(s), k)
    OBVIOUS
  <2>1. s = <<>>
    BY EmptySeq
  <2>2. <<>> \in Seq(Byte) /\ Len(<<>>) = 0 /\ Len(k) \in Nat
    BY EmptySeq, LenProperties
  <2>3. \A i \in Nat \ {0} : ~TokenAt(<<>>, k, i)
    BY <2>2 DEF TokenAt
  <2> QED
    BY <2>1, <2>2, <2>3, EventBytesEmpty DEF NoToken, Closed
<1>2. ASSUME NEW n \in Nat, n \in T PROVE n + 1 \in T
  <2> SUFFICES ASSUME NEW s \in Seq(Entries), Len(s) = n + 1, NoKeyEndsIn(s, k)
               PROVE  NoToken(EventBytes(s), k)
    OBVIOUS
  <2>1. s # <<>>
    BY EmptySeq
  <2>2. PICK r \in Seq(Entries), e \in Entries : s = Append(r, e)
    BY <2>1, SequenceEmptyOrAppend
  <2>3. Len(r) = n /\ s[n + 1] = e /\ \A i \in 1 .. n : s[i] = r[i]
    <3>1. /\ Len(s) = Len(r) + 1 /\ Len(r) \in Nat /\ s[Len(r) + 1] = e
          /\ \A i \in 1 .. Len(r) : s[i] = r[i]
      BY <2>2, AppendProperties, LenProperties
    <3> QED
      BY <3>1
  <2>4. NoKeyEndsIn(r, k) /\ ~EndsIn(e[1], k)
    <3>1. n + 1 \in 1 .. n + 1 /\ \A i \in 1 .. n : i \in 1 .. n + 1
      OBVIOUS
    <3> QED
      BY <2>3, <3>1 DEF NoKeyEndsIn
  <2> DEFINE d == EventBytes(r)
             w == EventBytes(s)
  <2>5. NoToken(d, k)
    BY <1>2, <2>3, <2>4
  <2>6. w = d \o Entry(e)
    BY <2>2, EventBytesAppend
  <2> HIDE DEF d, w, T
  <2>7. /\ w \in Seq(Byte) /\ Len(w) = Len(d) + Len(e[1]) + Len(e[2]) + 2
        /\ StartsWith(w, d) /\ HasEntry(w, Len(d), e[1], e[2])
    BY <2>5, <2>6, EntryBehind DEF NoToken
  <2>8. e[1] \in Seq(Free) /\ e[2] \in Seq(Free)
    BY DEF Entries
  <2>9. Closed(w)
    BY <2>7 DEF HasEntry, Closed
  <2>10. ASSUME NEW i \in Nat \ {0}, TokenAt(w, k, i) PROVE FALSE
    <3>1. i + Len(k) <= Len(d) + Len(e[1]) + Len(e[2]) + 2
      BY <2>7, <2>10 DEF TokenAt
    <3>2. TokenAt(d, k, i) \/ EndsIn(e[1], k)
      BY <2>5, <2>7, <2>8, <2>10, <3>1, TokenInNewEntry DEF NoToken
    <3> QED
      BY <2>4, <2>5, <3>2 DEF NoToken
  <2> QED
    BY <2>7, <2>9, <2>10 DEF NoToken, w
<1> HIDE DEF T
<1>3. Len(es) \in T
  BY <1>1, <1>2, Induction, LenProperties
<1> QED
  BY <1>3 DEF T

\* The m-th entry stands behind those before it.
EntryAt(es, m) ==
    LET before == EventBytes(SubSeq(es, 1, m - 1))
    IN  /\ StartsWith(EventBytes(es), before)
        /\ HasEntry(EventBytes(es), Len(before), es[m][1], es[m][2])

\* Each field of an event stands in its text.
LEMMA EntryInText ==
    ASSUME NEW es \in Seq(Entries), NEW m \in 1 .. Len(es)
    PROVE  EntryAt(es, m)
<1> DEFINE T == {n \in Nat : \A s \in Seq(Entries) :
                     Len(s) = n => \A i \in 1 .. n : EntryAt(s, i)}
<1>1. 0 \in T
  OBVIOUS
<1>2. ASSUME NEW n \in Nat, n \in T PROVE n + 1 \in T
  <2> SUFFICES ASSUME NEW s \in Seq(Entries), Len(s) = n + 1, NEW i \in 1 .. n + 1
               PROVE  EntryAt(s, i)
    OBVIOUS
  <2>1. s # <<>>
    BY EmptySeq
  <2>2. PICK r \in Seq(Entries), e \in Entries : s = Append(r, e)
    BY <2>1, SequenceEmptyOrAppend
  <2>3. Len(r) = n /\ s[n + 1] = e /\ \A j \in 1 .. n : s[j] = r[j]
    <3>1. /\ Len(s) = Len(r) + 1 /\ Len(r) \in Nat /\ s[Len(r) + 1] = e
          /\ \A j \in 1 .. Len(r) : s[j] = r[j]
      BY <2>2, AppendProperties, LenProperties
    <3> QED
      BY <3>1
  <2> DEFINE d == EventBytes(r)
             w == EventBytes(s)
             b == EventBytes(SubSeq(s, 1, i - 1))
  <2>4. d \in Seq(Byte) /\ w = d \o Entry(e)
    BY <2>2, EventBytesAppend
  <2> HIDE DEF d, w
  <2>5. /\ w \in Seq(Byte) /\ Len(w) = Len(d) + Len(e[1]) + Len(e[2]) + 2
        /\ StartsWith(w, d) /\ HasEntry(w, Len(d), e[1], e[2])
    BY <2>4, EntryBehind
  <2>6. CASE i = n + 1
    <3>1. SubSeq(s, 1, i - 1) = r
      <4>1. s = r \o <<e>> /\ <<e>> \in Seq(Entries)
        BY <2>2, AppendIsConcat
      <4>2. CASE n = 0
        <5>1. SubSeq(s, 1, i - 1) = <<>> /\ r = <<>>
          BY <2>3, <2>6, <4>2, SubSeqEmpty, EmptySeq
        <5> QED
          BY <5>1
      <4>3. CASE n # 0
        <5>1. 1 \in 1 .. Len(r) /\ n \in 1 .. Len(r) /\ i - 1 = n
          BY <2>3, <2>6, <4>3
        <5>2. SubSeq(r \o <<e>>, 1, n) = SubSeq(r, 1, n)
          BY <4>1, <5>1, SubSeqOfConcat1
        <5>3. SubSeq(r, 1, n) = r
          BY <2>3, SubSeqFull
        <5> QED
          BY <4>1, <5>1, <5>2, <5>3
      <4> QED
        BY <4>2, <4>3
    <3> QED
      BY <2>3, <2>5, <2>6, <3>1 DEF EntryAt, d, w
  <2>7. CASE i # n + 1
    <3>1. i \in 1 .. n
      BY <2>7
    <3>2. EntryAt(r, i)
      BY <1>2, <2>3, <3>1
    <3>3. SubSeq(s, 1, i - 1) = SubSeq(r, 1, i - 1)
      <4>1. s = r \o <<e>> /\ <<e>> \in Seq(Entries)
        BY <2>2, AppendIsConcat
      <4>2. CASE i = 1
        BY <4>2, SubSeqEmpty
      <4>3. CASE i # 1
        <5>1. 1 \in 1 .. Len(r) /\ i - 1 \in 1 .. Len(r)
          BY <2>3, <3>1, <4>3
        <5> QED
          BY <4>1, <5>1, SubSeqOfConcat1
      <4> QED
        BY <4>2, <4>3
    <3>4. s[i] = r[i]
      BY <2>3, <3>1
    <3> DEFINE k == s[i][1]
               v == s[i][2]
    <3>5. StartsWith(d, b) /\ HasEntry(d, Len(b), k, v)
      BY <3>2, <3>3, <3>4 DEF EntryAt, d
    <3>6. k \in Seq(Free) /\ v \in Seq(Free)
      <4>1. s[i] \in Entries
        BY ElementOfSeq
      <4> QED
        BY <4>1 DEF Entries
    <3>7. b \in Seq(Byte)
      <4>1. SubSeq(s, 1, i - 1) \in Seq(Entries)
        <5>1. \A j \in 1 .. i - 1 : s[j] \in Entries
          BY ElementOfSeq
        <5> QED
          BY <5>1, SubSeqProperties
      <4> QED
        BY <4>1, EventBytesAppend, <2>2
    <3>8. Len(b) \in Nat /\ Len(d) \in Nat /\ Len(k) \in Nat /\ Len(v) \in Nat
      BY <2>4, <3>6, <3>7, LenProperties
    <3> HIDE DEF k, v, b
    <3>9. Len(d) <= Len(w) /\ \A j \in 1 .. Len(d) : w[j] = d[j]
      BY <2>5 DEF StartsWith
    <3>10. StartsWith(w, b)
      BY <3>5, <3>8, <3>9 DEF StartsWith
    <3>11. HasEntry(w, Len(b), k, v)
      <4>1. Len(b) + Len(k) + Len(v) + 2 <= Len(d)
        BY <3>5 DEF HasEntry
      <4>2. ASSUME NEW j \in 1 .. Len(k) PROVE w[Len(b) + j] = k[j]
        <5>1. Len(b) + j \in 1 .. Len(d) /\ d[Len(b) + j] = k[j]
          BY <3>5, <3>8, <4>1, SMTT(30) DEF HasEntry
        <5> QED
          BY <3>9, <5>1
      <4>3. w[Len(b) + Len(k) + 1] = Colon
        <5>1. Len(b) + Len(k) + 1 \in 1 .. Len(d)
          BY <3>8, <4>1
        <5> QED
          BY <3>5, <3>9, <5>1 DEF HasEntry
      <4>4. ASSUME NEW j \in 1 .. Len(v) PROVE w[Len(b) + Len(k) + 1 + j] = v[j]
        <5>1. Len(b) + Len(k) + 1 + j \in 1 .. Len(d) /\ d[Len(b) + Len(k) + 1 + j] = v[j]
          BY <3>5, <3>8, <4>1, SMTT(30) DEF HasEntry
        <5> QED
          BY <3>9, <5>1
      <4>5. w[Len(b) + Len(k) + Len(v) + 2] = Semicolon
        <5>1. Len(b) + Len(k) + Len(v) + 2 \in 1 .. Len(d)
          BY <3>8, <4>1
        <5> QED
          BY <3>5, <3>9, <5>1 DEF HasEntry
      <4>6. Len(b) + Len(k) + Len(v) + 2 <= Len(w)
        <5>1. Len(w) \in Nat
          BY <2>5, LenProperties
        <5> QED
          BY <3>8, <3>9, <4>1, <5>1
      <4> QED
        BY <4>2, <4>3, <4>4, <4>5, <4>6 DEF HasEntry
    <3> QED
      BY <3>10, <3>11 DEF EntryAt, w, b, k, v
  <2> QED
    BY <2>6, <2>7
<1> HIDE DEF T
<1>3. Len(es) \in T
  BY <1>1, <1>2, Induction, LenProperties
<1> QED
  BY <1>3 DEF T

-----------------------------------------------------------------------------
(* find *)

\* t stands in s at place i.
At(s, t, i) ==
    /\ i \in Nat \ {0}
    /\ i + Len(t) <= Len(s) + 1
    /\ \A j \in 1 .. Len(t) : s[i + j - 1] = t[j]

\* Min of a set of numbers is its least element.
LEMMA LeastIsMin ==
    ASSUME NEW T, T \subseteq Nat, NEW x \in T, \A y \in T : x <= y
    PROVE  Min(T) = x
<1>1. Min(T) \in T /\ \A y \in T : Min(T) <= y
  BY DEF Min
<1>2. Min(T) <= x /\ x <= Min(T) /\ x \in Nat /\ Min(T) \in Nat
  BY <1>1
<1> HIDE DEF Min
<1> QED
  BY <1>2

\* Max of a set of numbers is its greatest element.
LEMMA GreatestIsMax ==
    ASSUME NEW T, T \subseteq Nat, NEW x \in T, \A y \in T : y <= x
    PROVE  Max(T) = x
<1>1. Max(T) \in T /\ \A y \in T : Max(T) >= y
  BY DEF Max
<1>2. x <= Max(T) /\ Max(T) <= x /\ x \in Nat /\ Max(T) \in Nat
  BY <1>1
<1> QED
  BY <1>2

\* SubSeq finds t at place i just when t stands there.
LEMMA SubSeqIsAt ==
    ASSUME NEW S, NEW s \in Seq(S), NEW t \in Seq(S), t # <<>>,
           NEW i \in Nat \ {0}, i + Len(t) <= Len(s) + 1
    PROVE  SubSeq(s, i, i + Len(t) - 1) = t <=> At(s, t, i)
<1> DEFINE T == Len(t)
           u == SubSeq(s, i, i + T - 1)
<1>1. T \in Nat \ {0} /\ Len(s) \in Nat
  BY EmptySeq, LenProperties
<1>2. \A j \in i .. i + T - 1 : s[j] \in S
  <2>1. \A j \in i .. i + T - 1 : j \in 1 .. Len(s)
    BY <1>1
  <2> QED
    BY <2>1, ElementOfSeq
<1>3. i \in Int /\ i + T - 1 \in Int /\ i <= i + T - 1 /\ (i + T - 1) - i + 1 = T
  BY <1>1
<1>4. u \in Seq(S) /\ Len(u) = T /\ \A j \in 1 .. T : u[j] = s[i + j - 1]
  <2> DEFINE n == i + T - 1
  <2>1. n \in 1 .. Len(s) /\ i \in 1 .. Len(s) /\ i <= n /\ n - i + 1 = T
    BY <1>1
  <2> HIDE DEF n, T
  <2>2. SubSeq(s, i, n) = [j \in 1 .. (n - i + 1) |-> s[i + j - 1]]
    BY <2>1
  <2>3. u = [j \in 1 .. T |-> s[i + j - 1]]
    BY <2>1, <2>2 DEF n
  <2>4. \A j \in 1 .. T : i + j - 1 \in 1 .. Len(s)
    BY <1>1, <2>1 DEF n
  <2>5. u \in [1 .. T -> S]
    BY <2>3, <2>4, ElementOfSeq
  <2> HIDE DEF u
  <2> QED
    BY <1>1, <2>3, <2>5, FunctionIsSeq
<1> HIDE DEF u
<1>5. u = t <=> \A j \in 1 .. T : u[j] = t[j]
  BY <1>4, SeqEqual
<1> QED
  BY <1>4, <1>5 DEF At, u

\* find returns the first place at which t stands.
LEMMA FindFirst ==
    ASSUME NEW S, NEW s \in Seq(S), NEW t \in Seq(S), t # <<>>, NEW pos \in Nat \ {0}
    PROVE  /\ (\A i \in Nat : i >= pos => ~At(s, t, i)) => find(s, t, pos) = 0
           /\ \A i \in Nat : (/\ i >= pos /\ At(s, t, i)
                              /\ \A j \in Nat : j >= pos /\ At(s, t, j) => i <= j)
                             => find(s, t, pos) = i
<1> DEFINE places == {i \in pos .. Len(s) - Len(t) + 1 : SubSeq(s, i, i + Len(t) - 1) = t}
<1>1. Len(s) \in Nat /\ Len(t) \in Nat \ {0}
  BY EmptySeq, LenProperties
<1>2. \A i : i \in places <=> i \in Nat /\ i >= pos /\ At(s, t, i)
  <2> TAKE i
  <2>1. CASE i \in pos .. Len(s) - Len(t) + 1
    <3>1. i \in Nat \ {0} /\ i + Len(t) <= Len(s) + 1 /\ i >= pos
      BY <1>1, <2>1
    <3>2. SubSeq(s, i, i + Len(t) - 1) = t <=> At(s, t, i)
      BY <3>1, SubSeqIsAt
    <3> QED
      BY <2>1, <3>1, <3>2
  <2>2. CASE i \notin pos .. Len(s) - Len(t) + 1
    <3>1. ~(i \in Nat /\ i >= pos /\ At(s, t, i))
      BY <1>1, <2>2 DEF At
    <3> QED
      BY <2>2, <3>1
  <2> QED
    BY <2>1, <2>2
<1>3. find(s, t, pos) = IF places = {} THEN 0 ELSE Min(places)
  BY DEF find
<1> HIDE DEF places
<1>4. ASSUME \A i \in Nat : i >= pos => ~At(s, t, i) PROVE find(s, t, pos) = 0
  BY <1>2, <1>3, <1>4
<1>5. ASSUME NEW i \in Nat, i >= pos, At(s, t, i),
             \A j \in Nat : j >= pos /\ At(s, t, j) => i <= j
      PROVE  find(s, t, pos) = i
  <2>1. places \subseteq Nat /\ i \in places /\ \A y \in places : i <= y
    BY <1>2, <1>5
  <2>2. Min(places) = i
    BY <2>1, LeastIsMin
  <2> QED
    BY <1>3, <2>1, <2>2
<1> QED
  BY <1>4, <1>5

Marker(k) == k \o <<Colon>>

\* The marker of a key stands just where the key and its colon do.
LEMMA MarkerIsToken ==
    ASSUME NEW k \in Seq(Free)
    PROVE  /\ Marker(k) \in Seq(Byte) /\ Marker(k) # <<>> /\ Len(Marker(k)) = Len(k) + 1
           /\ \A d, i : At(d, Marker(k), i) /\ d \in Seq(Byte) <=>
                            i \in Nat \ {0} /\ TokenAt(d, k, i) /\ d \in Seq(Byte)
<1> DEFINE c == <<Colon>>
           t == Marker(k)
<1>1. k \in Seq(Byte) /\ c \in Seq(Byte) /\ Len(c) = 1 /\ c[1] = Colon
  <2>1. Free \subseteq Byte /\ Colon \in Byte
    BY DEF Free, Byte, Colon
  <2> QED
    BY <2>1, SeqMonotone
<1>2. Len(k) \in Nat
  BY LenProperties
<1>3. /\ t \in Seq(Byte) /\ Len(t) = Len(k) + 1
      /\ \A i \in 1 .. Len(k) + 1 : t[i] = IF i <= Len(k) THEN k[i] ELSE c[i - Len(k)]
  <2>1. /\ t \in Seq(Byte) /\ Len(t) = Len(k) + Len(c)
        /\ \A i \in 1 .. Len(k) + Len(c) : t[i] = IF i <= Len(k) THEN k[i] ELSE c[i - Len(k)]
    BY <1>1, ConcatProperties DEF Marker
  <2> HIDE DEF t
  <2> QED
    BY <1>1, <2>1
<1> HIDE DEF t, c
<1>4. t # <<>>
  BY <1>2, <1>3, EmptySeq
<1>5. \A j \in 1 .. Len(k) : t[j] = k[j]
  <2>1. \A j \in 1 .. Len(k) : j \in 1 .. Len(k) + 1 /\ j <= Len(k)
    BY <1>2
  <2> QED
    BY <1>3, <2>1
<1>6. t[Len(k) + 1] = Colon
  <2> DEFINE j == Len(k) + 1
  <2>1. j \in 1 .. Len(k) + 1 /\ ~(j <= Len(k)) /\ j - Len(k) = 1
    BY <1>2
  <2> HIDE DEF j
  <2>2. t[j] = Colon
    BY <1>1, <1>3, <2>1
  <2> QED
    BY <2>2 DEF j
<1>7. ASSUME NEW d \in Seq(Byte), NEW i
      PROVE  At(d, t, i) <=> i \in Nat \ {0} /\ TokenAt(d, k, i)
  <2>0. Len(d) \in Nat
    BY LenProperties
  <2>1. ASSUME At(d, t, i) PROVE i \in Nat \ {0} /\ TokenAt(d, k, i)
    <3>1. i \in Nat \ {0} /\ i + Len(k) <= Len(d)
      BY <1>2, <1>3, <2>0, <2>1 DEF At
    <3>2. ASSUME NEW j \in 1 .. Len(k) PROVE d[i + j - 1] = k[j]
      <4>1. j \in 1 .. Len(t)
        BY <1>2, <1>3
      <4> QED
        BY <1>5, <2>1, <4>1 DEF At
    <3>3. d[i + Len(k)] = Colon
      <4> DEFINE j == Len(k) + 1
      <4>1. j \in 1 .. Len(t) /\ i + j - 1 = i + Len(k)
        BY <1>2, <1>3, <3>1
      <4>2. t[j] = Colon
        BY <1>6
      <4> HIDE DEF j
      <4>3. d[i + j - 1] = t[j]
        BY <2>1, <4>1 DEF At
      <4> QED
        BY <4>1, <4>2, <4>3
    <3> QED
      BY <3>1, <3>2, <3>3 DEF TokenAt
  <2>2. ASSUME i \in Nat \ {0}, TokenAt(d, k, i) PROVE At(d, t, i)
    <3>1. i + Len(t) <= Len(d) + 1
      BY <1>2, <1>3, <2>0, <2>2 DEF TokenAt
    <3>2. ASSUME NEW j \in 1 .. Len(t) PROVE d[i + j - 1] = t[j]
      <4>1. CASE j = Len(k) + 1
        <5>1. i + j - 1 = i + Len(k)
          BY <1>2, <2>2, <4>1
        <5> QED
          BY <1>6, <2>2, <4>1, <5>1 DEF TokenAt
      <4>2. CASE j # Len(k) + 1
        <5>1. j \in 1 .. Len(k)
          BY <1>2, <1>3, <4>2
        <5> QED
          BY <1>5, <2>2, <5>1 DEF TokenAt
      <4> QED
        BY <4>1, <4>2
    <3> QED
      BY <2>2, <3>1, <3>2 DEF At
  <2> QED
    BY <2>1, <2>2
<1> QED
  BY <1>3, <1>4, <1>7 DEF t

\* The first token k: in w stands at place p + 1, followed by the value v.
FirstToken(w, p, k, v) ==
    /\ w \in Seq(Byte) /\ p \in Nat
    /\ HasEntry(w, p, k, v)
    /\ \A i \in 1 .. p : ~TokenAt(w, k, i)

\* A key that only one field ends in has its first token at that field.
LEMMA KeyInText ==
    ASSUME NEW es \in Seq(Entries), NEW m \in 1 .. Len(es),
           \A i \in 1 .. m - 1 : ~EndsIn(es[i][1], es[m][1])
    PROVE  \E p \in Nat : FirstToken(EventBytes(es), p, es[m][1], es[m][2])
<1> DEFINE front == SubSeq(es, 1, m - 1)
           b == EventBytes(front)
           w == EventBytes(es)
           k == es[m][1]
           v == es[m][2]
<1>1. front \in Seq(Entries) /\ \A i \in 1 .. Len(front) : i \in 1 .. m - 1 /\ front[i] = es[i]
  <2>1. CASE m = 1
    <3>1. front = <<>>
      BY <2>1, SubSeqEmpty
    <3>2. <<>> \in Seq(Entries) /\ Len(<<>>) = 0
      BY EmptySeq
    <3> QED
      BY <3>1, <3>2
  <2>2. CASE m # 1
    <3> DEFINE n == m - 1
    <3>1. n \in 1 .. Len(es) /\ Len(es) \in Nat
      BY <2>2, LenProperties
    <3>2. \A i \in 1 .. n : es[i] \in Entries
      <4>1. \A i \in 1 .. n : i \in 1 .. Len(es)
        BY <3>1
      <4> QED
        BY <4>1, ElementOfSeq
    <3> HIDE DEF n
    <3>3. SubSeq(es, 1, n) = [i \in 1 .. n |-> es[i]]
      <4>1. SubSeq(es, 1, n) = [i \in 1 .. (n - 1 + 1) |-> es[1 + i - 1]]
        BY <3>1
      <4>2. n - 1 + 1 = n /\ \A i \in 1 .. n : 1 + i - 1 = i
        BY <3>1
      <4> QED
        BY <4>1, <4>2
    <3>4. SubSeq(es, 1, n) \in [1 .. n -> Entries]
      BY <3>2, <3>3
    <3>5. SubSeq(es, 1, n) \in Seq(Entries) /\ Len(SubSeq(es, 1, n)) = n
      BY <3>1, <3>4, FunctionIsSeq
    <3>6. \A i \in 1 .. n : SubSeq(es, 1, n)[i] = es[i]
      BY <3>3
    <3> QED
      BY <3>5, <3>6 DEF n
  <2> QED
    BY <2>1, <2>2
<1>2. w \in Seq(Byte)
  <2>1. PICK r \in Seq(Entries), e \in Entries : es = Append(r, e)
    <3>1. es # <<>>
      BY EmptySeq
    <3> QED
      BY <3>1, SequenceEmptyOrAppend
  <2>2. EventBytes(r) \in Seq(Byte) /\ w = EventBytes(r) \o Entry(e)
    BY <2>1, EventBytesAppend
  <2> QED
    BY <2>2, EntryBehind
<1>3. k \in Seq(Free) /\ v \in Seq(Free)
  <2>1. es[m] \in Entries
    BY ElementOfSeq
  <2> QED
    BY <2>1 DEF Entries
<1>4. NoToken(b, k)
  <2>1. NoKeyEndsIn(front, k)
    BY <1>1 DEF NoKeyEndsIn
  <2> HIDE DEF front
  <2> QED
    BY <1>1, <1>3, <2>1, NoTokenWithoutKey
<1>5. StartsWith(w, b) /\ HasEntry(w, Len(b), k, v)
  BY EntryInText DEF EntryAt
<1> HIDE DEF w, b, k, v
<1>6. Len(b) \in Nat /\ Len(k) \in Nat /\ Len(v) \in Nat
  BY <1>3, <1>4, LenProperties DEF NoToken
<1>7. ASSUME NEW i \in 1 .. Len(b), TokenAt(w, k, i) PROVE FALSE
  <2>1. i \in Nat \ {0} /\ i + Len(k) <= Len(b) + Len(k) + Len(v) + 2
        /\ i # Len(b) + Len(k) - Len(k) + 1
    BY <1>6
  <2>2. TokenAt(b, k, i)
    BY <1>2, <1>3, <1>4, <1>5, <1>7, <2>1, TokenInNewEntry DEF NoToken
  <2> QED
    BY <1>4, <2>1, <2>2 DEF NoToken
<1>8. FirstToken(w, Len(b), k, v)
  BY <1>2, <1>5, <1>6, <1>7 DEF FirstToken
<1> QED
  BY <1>6, <1>8 DEF w, b, k, v

\* find returns the place of the first token.
LEMMA FindToken ==
    ASSUME NEW k \in Seq(Free), NEW v \in Seq(Free), NEW w, NEW p \in Nat, FirstToken(w, p, k, v)
    PROVE  find(w, Marker(k), 1) = p + 1
<1>1. w \in Seq(Byte) /\ Marker(k) \in Seq(Byte) /\ Marker(k) # <<>>
  BY MarkerIsToken DEF FirstToken
<1>2. Len(k) \in Nat /\ Len(v) \in Nat /\ Len(w) \in Nat
  BY <1>1, LenProperties
<1>3. TokenAt(w, k, p + 1)
  <2>1. p + Len(k) + Len(v) + 2 <= Len(w) /\ w[p + Len(k) + 1] = Colon
        /\ \A j \in 1 .. Len(k) : w[p + j] = k[j]
    BY DEF FirstToken, HasEntry
  <2>2. (p + 1) + Len(k) <= Len(w) /\ (p + 1) + Len(k) = p + Len(k) + 1
        /\ \A j \in 1 .. Len(k) : (p + 1) + j - 1 = p + j
    BY <1>2, <2>1
  <2> QED
    BY <2>1, <2>2 DEF TokenAt
<1>4. At(w, Marker(k), p + 1)
  BY <1>1, <1>3, MarkerIsToken
<1>5. ASSUME NEW j \in Nat, At(w, Marker(k), j) PROVE p + 1 <= j
  <2>1. j \in Nat \ {0} /\ TokenAt(w, k, j)
    BY <1>1, <1>5, MarkerIsToken
  <2>2. j \notin 1 .. p
    BY <2>1 DEF FirstToken
  <2> QED
    BY <2>1, <2>2
<1>6. p + 1 \in Nat /\ p + 1 >= 1 /\ 1 \in Nat \ {0}
  OBVIOUS
<1> QED
  BY <1>1, <1>4, <1>5, <1>6, FindFirst

\* find finds nothing in a text without the token.
LEMMA FindNoToken ==
    ASSUME NEW k \in Seq(Free), NEW w, NoToken(w, k)
    PROVE  find(w, Marker(k), 1) = 0
<1>1. w \in Seq(Byte) /\ Marker(k) \in Seq(Byte) /\ Marker(k) # <<>>
  BY MarkerIsToken DEF NoToken
<1>2. \A i \in Nat : ~At(w, Marker(k), i)
  BY <1>1, MarkerIsToken DEF NoToken
<1> QED
  BY <1>1, <1>2, FindFirst

\* The first semicolon behind a value is the one that ends it.
LEMMA FindSemicolon ==
    ASSUME NEW w \in Seq(Byte), NEW pos \in Nat \ {0}, NEW n \in Nat, pos + n <= Len(w),
           \A j \in 1 .. n : w[pos + j - 1] # Semicolon, w[pos + n] = Semicolon
    PROVE  find(w, <<Semicolon>>, pos) = pos + n
<1> DEFINE t == <<Semicolon>>
<1>1. t \in Seq(Byte) /\ t # <<>> /\ Len(t) = 1 /\ t[1] = Semicolon
  BY DEF Byte, Semicolon
<1>2. Len(w) \in Nat
  BY LenProperties
<1> HIDE DEF t
<1>3. At(w, t, pos + n)
  <2>1. pos + n \in Nat \ {0} /\ pos + n + 1 <= Len(w) + 1
    BY <1>2
  <2>2. ASSUME NEW j \in 1 .. 1 PROVE w[pos + n + j - 1] = t[j]
    <3>1. j = 1 /\ pos + n + j - 1 = pos + n
      OBVIOUS
    <3> QED
      BY <1>1, <3>1
  <2> QED
    BY <1>1, <2>1, <2>2 DEF At
<1>4. ASSUME NEW i \in Nat, i >= pos, At(w, t, i) PROVE pos + n <= i
  <2>1. w[i] = Semicolon
    <3>1. 1 \in 1 .. Len(t) /\ i + 1 - 1 = i
      BY <1>1
    <3> QED
      BY <1>1, <1>4, <3>1 DEF At
  <2> SUFFICES ASSUME i < pos + n PROVE FALSE
    OBVIOUS
  <2>2. i - pos + 1 \in 1 .. n /\ pos + (i - pos + 1) - 1 = i
    BY <1>4
  <2> QED
    BY <2>1, <2>2
<1>5. pos + n \in Nat /\ pos + n >= pos
  OBVIOUS
<1>6. find(w, t, pos) = pos + n
  BY <1>1, <1>3, <1>4, <1>5, FindFirst
<1> QED
  BY <1>6 DEF t

\* What v is to a reader that stops at a semicolon.
Begins(r, v) ==
    /\ r \in Seq(Byte) /\ Len(v) < Len(r)
    /\ \A j \in 1 .. Len(v) : r[j] = v[j]
    /\ r[Len(v) + 1] = Semicolon

\* A part of a text: its length and its bytes.
LEMMA SubSeqElements ==
    ASSUME NEW S, NEW s \in Seq(S), NEW a \in Nat \ {0}, NEW n \in Nat, a + n <= Len(s) + 1
    PROVE  /\ SubSeq(s, a, a + n - 1) \in Seq(S) /\ Len(SubSeq(s, a, a + n - 1)) = n
           /\ \A j \in 1 .. n : SubSeq(s, a, a + n - 1)[j] = s[a + j - 1]
<1>1. Len(s) \in Nat
  BY LenProperties
<1> DEFINE b == a + n - 1
<1>2. a \in Int /\ b \in Int /\ b - a + 1 = n
  OBVIOUS
<1>3. \A j \in 1 .. n : a + j - 1 \in 1 .. Len(s)
  BY <1>1
<1> HIDE DEF b
<1>4. SubSeq(s, a, b) = [j \in 1 .. n |-> s[a + j - 1]]
  <2>1. SubSeq(s, a, b) = [j \in 1 .. (b - a + 1) |-> s[a + j - 1]]
    BY <1>2
  <2> QED
    BY <1>2, <2>1
<1>5. SubSeq(s, a, b) \in [1 .. n -> S]
  BY <1>3, <1>4, ElementOfSeq
<1>6. SubSeq(s, a, b) \in Seq(S) /\ Len(SubSeq(s, a, b)) = n
  BY <1>5, FunctionIsSeq
<1>7. \A j \in 1 .. n : SubSeq(s, a, b)[j] = s[a + j - 1]
  BY <1>4
<1> QED
  BY <1>6, <1>7 DEF b

\* GetStringByToken returns the value of the key's field, and AfterToken the
\* rest of the text from it.
LEMMA ValueOfKey ==
    ASSUME NEW k \in Seq(Free), NEW v \in Seq(Free), NEW w, NEW p \in Nat, FirstToken(w, p, k, v)
    PROVE  /\ GetStringByToken(w, Marker(k), <<Semicolon>>) = v
           /\ Begins(AfterToken(w, Marker(k)), v)
<1> DEFINE K == Len(k)
           V == Len(v)
           t == Marker(k)
           pos == p + 1 + Len(t)
<1>1. w \in Seq(Byte) /\ Len(t) = K + 1
  BY MarkerIsToken DEF FirstToken
<1>2. K \in Nat /\ V \in Nat /\ Len(w) \in Nat
  BY <1>1, LenProperties
<1>3. find(w, t, 1) = p + 1
  BY FindToken
<1>4. /\ p + K + V + 2 <= Len(w)
      /\ \A j \in 1 .. V : w[p + K + 1 + j] = v[j]
      /\ w[p + K + V + 2] = Semicolon
  BY DEF FirstToken, HasEntry
<1>5. \A j \in 1 .. V : v[j] \in Byte /\ v[j] # Semicolon
  BY ElementOfSeq DEF Free
<1> HIDE DEF K, V, t
<1>6. pos = p + K + 2 /\ pos \in Nat \ {0} /\ pos <= Len(w) /\ pos + V <= Len(w) /\ p + 1 # 0
  BY <1>1, <1>2, <1>4
<1> HIDE DEF pos
<1>7. \A j \in 1 .. V : w[pos + j - 1] = v[j]
  <2>1. \A j \in 1 .. V : pos + j - 1 = p + K + 1 + j
    BY <1>2, <1>6
  <2> QED
    BY <1>4, <2>1
<1>8. w[pos + V] = Semicolon
  <2>1. pos + V = p + K + V + 2
    BY <1>2, <1>6
  <2> QED
    BY <1>4, <2>1
<1>9. find(w, <<Semicolon>>, pos) = pos + V
  <2>1. \A j \in 1 .. V : w[pos + j - 1] # Semicolon
    BY <1>5, <1>7
  <2>2. pos + V <= Len(w)
    BY <1>6
  <2> QED
    BY <1>1, <1>2, <1>6, <1>8, <2>1, <2>2, FindSemicolon, Zenon
<1>10. v \in Seq(Byte) /\ Len(v) = V
  <2>1. Free \subseteq Byte
    BY DEF Free
  <2> QED
    BY <2>1, SeqMonotone DEF V
<1>11. SubSeq(w, pos, pos + V - 1) = v
  <2>1. /\ SubSeq(w, pos, pos + V - 1) \in Seq(Byte) /\ Len(SubSeq(w, pos, pos + V - 1)) = V
        /\ \A j \in 1 .. V : SubSeq(w, pos, pos + V - 1)[j] = w[pos + j - 1]
    <3>1. pos + V <= Len(w) + 1
      BY <1>2, <1>6
    <3> QED
      BY <1>1, <1>2, <1>6, <3>1, SubSeqElements
  <2> QED
    BY <1>7, <1>10, <2>1, SeqEqual
<1>12. GetStringByToken(w, t, <<Semicolon>>) = v
  <2> DEFINE z == <<Semicolon>>
             end == find(w, z, pos)
             got == GetStringByToken(w, t, z)
  <2>1. find(w, t, 1) # 0 /\ find(w, t, 1) + Len(t) = pos
    BY <1>3, <1>6 DEF pos
  <2> HIDE DEF z
  <2>2. got = IF find(w, t, 1) # 0 /\ find(w, t, 1) + Len(t) <= Len(w)
                 /\ find(w, z, find(w, t, 1) + Len(t)) > find(w, t, 1) + Len(t)
              THEN SubSeq(w, find(w, t, 1) + Len(t),
                          find(w, z, find(w, t, 1) + Len(t)) - 1)
              ELSE <<>>
    BY Zenon DEF GetStringByToken
  <2>3. got = IF pos <= Len(w) /\ end > pos THEN SubSeq(w, pos, end - 1) ELSE <<>>
    BY <2>1, <2>2, Zenon
  <2>4. end = pos + V
    BY <1>9 DEF z
  <2> HIDE DEF end, got
  <2>5. CASE V = 0
    <3>1. v = <<>>
      BY <1>10, <2>5, EmptySeq
    <3>2. ~(end > pos)
      BY <1>6, <2>4, <2>5
    <3>3. got = v
      BY <2>3, <3>1, <3>2, Zenon
    <3> QED
      BY <3>3, Zenon DEF got, z
  <2>6. CASE V # 0
    <3>1. end > pos
      BY <1>2, <1>6, <2>4, <2>6
    <3>2. got = SubSeq(w, pos, end - 1)
      BY <1>6, <2>3, <3>1
    <3>3. got = v
      <4>1. end - 1 = pos + V - 1
        BY <1>2, <1>6, <2>4
      <4>2. SubSeq(w, pos, end - 1) = v
        BY <1>11, <4>1, Zenon
      <4> QED
        BY <3>2, <4>2, Zenon
    <3> QED
      BY <3>3, Zenon DEF got, z
  <2> QED
    BY <2>5, <2>6
<1>13. Begins(AfterToken(w, t), v)
  <2> DEFINE n == Len(w) - pos + 1
             r == SubSeq(w, pos, pos + n - 1)
  <2>1. n \in Nat /\ V < n /\ pos + n <= Len(w) + 1 /\ pos + n - 1 = Len(w)
    BY <1>2, <1>6
  <2>2. AfterToken(w, t) = r
    <3>1. AfterToken(w, t) = SubSeq(w, pos, Len(w))
      BY <1>3, <1>6 DEF AfterToken, pos
    <3> QED
      BY <2>1, <3>1
  <2> HIDE DEF n
  <2>3. r \in Seq(Byte) /\ Len(r) = n /\ \A j \in 1 .. n : r[j] = w[pos + j - 1]
    <3>1. n \in Nat /\ pos \in Nat \ {0} /\ pos + n <= Len(w) + 1
      BY <1>6, <2>1
    <3> QED
      BY <1>1, <3>1, SubSeqElements
  <2> HIDE DEF r
  <2>4. \A j \in 1 .. V : r[j] = v[j]
    <3>1. \A j \in 1 .. V : j \in 1 .. n
      BY <1>2, <2>1
    <3> QED
      BY <1>7, <2>3, <3>1
  <2>5. r[V + 1] = Semicolon
    <3>1. V + 1 \in 1 .. n /\ pos + (V + 1) - 1 = pos + V
      BY <1>2, <1>6, <2>1
    <3>2. r[V + 1] = w[pos + (V + 1) - 1]
      BY <2>3, <3>1
    <3> QED
      BY <1>8, <3>1, <3>2
  <2> QED
    BY <1>10, <2>1, <2>2, <2>3, <2>4, <2>5 DEF Begins
<1> QED
  BY <1>12, <1>13 DEF t

\* GetStringByToken returns the empty text for a key that is in no field.
LEMMA NoValueOfKey ==
    ASSUME NEW k \in Seq(Free), NEW w, NoToken(w, k)
    PROVE  /\ GetStringByToken(w, Marker(k), <<Semicolon>>) = <<>>
           /\ AfterToken(w, Marker(k)) = <<>>
  BY FindNoToken DEF GetStringByToken, AfterToken

-----------------------------------------------------------------------------
(* Numbers that end at a semicolon *)

\* A reader of a text that begins with v finds there what it finds in v.
LEMMA GetOfBegins ==
    ASSUME NEW v \in Seq(Free), NEW r, Begins(r, v), NEW i \in Nat \ {0}, i <= Len(v) + 1
    PROVE  /\ i <= Len(v) => get(r, i) = v[i] /\ get(v, i) = v[i] /\ r[i] = v[i]
           /\ i = Len(v) + 1 => get(r, i) = Semicolon /\ get(v, i) = EOF
<1>1. Len(v) \in Nat /\ Len(r) \in Nat /\ Len(v) < Len(r)
  BY LenProperties DEF Begins
<1>2. i \in 1 .. Len(r) /\ (i \in 1 .. Len(v) <=> i <= Len(v))
  BY <1>1
<1>3. i <= Len(v) => r[i] = v[i]
  BY <1>2 DEF Begins
<1>4. i = Len(v) + 1 => r[i] = Semicolon /\ ~(i <= Len(v))
  BY <1>1 DEF Begins
<1> QED
  BY <1>2, <1>3, <1>4 DEF get

\* A text that begins with a value and a semicolon, without its first bytes.
LEMMA BeginsBehind ==
    ASSUME NEW v \in Seq(Free), NEW r, Begins(r, v), NEW a \in Nat \ {0}, a <= Len(v) + 1
    PROVE  /\ SubSeq(v, a, Len(v)) \in Seq(Free)
           /\ Begins(SubSeq(r, a, Len(r)), SubSeq(v, a, Len(v)))
<1> DEFINE V == Len(v)
           R == Len(r)
           m == V - a + 1
           n == R - a + 1
           x == SubSeq(v, a, V)
           y == SubSeq(r, a, R)
<1>1. V \in Nat /\ R \in Nat /\ V < R /\ r \in Seq(Byte)
  BY LenProperties DEF Begins
<1>2. m \in Nat /\ n \in Nat /\ m < n /\ a + m - 1 = V /\ a + n - 1 = R
      /\ a + m <= V + 1 /\ a + n <= R + 1 /\ a + m = V + 1
  BY <1>1
<1>3. x \in Seq(Free) /\ Len(x) = m /\ \A j \in 1 .. m : x[j] = v[a + j - 1]
  <2>1. /\ SubSeq(v, a, a + m - 1) \in Seq(Free) /\ Len(SubSeq(v, a, a + m - 1)) = m
        /\ \A j \in 1 .. m : SubSeq(v, a, a + m - 1)[j] = v[a + j - 1]
    <3> HIDE DEF m
    <3> QED
      BY <1>2, SubSeqElements
  <2> HIDE DEF m, V
  <2> QED
    BY <1>2, <2>1
<1>4. y \in Seq(Byte) /\ Len(y) = n /\ \A j \in 1 .. n : y[j] = r[a + j - 1]
  <2>1. /\ SubSeq(r, a, a + n - 1) \in Seq(Byte) /\ Len(SubSeq(r, a, a + n - 1)) = n
        /\ \A j \in 1 .. n : SubSeq(r, a, a + n - 1)[j] = r[a + j - 1]
    <3> HIDE DEF n
    <3> QED
      BY <1>1, <1>2, SubSeqElements
  <2> HIDE DEF n, R
  <2> QED
    BY <1>2, <2>1
<1>5. (\A j \in 1 .. V : r[j] = v[j]) /\ r[V + 1] = Semicolon
  BY DEF Begins
<1> HIDE DEF V, R, m, n, x, y
<1>6. ASSUME NEW j \in 1 .. m PROVE y[j] = x[j]
  <2>1. j \in 1 .. n /\ a + j - 1 \in 1 .. V
    BY <1>1, <1>2
  <2> QED
    BY <1>3, <1>4, <1>5, <2>1
<1>7. y[m + 1] = Semicolon
  <2>1. m + 1 \in 1 .. n /\ a + (m + 1) - 1 = V + 1
    BY <1>1, <1>2
  <2>2. y[m + 1] = r[a + (m + 1) - 1]
    BY <1>4, <2>1
  <2> QED
    BY <1>5, <2>1, <2>2
<1>8. Begins(y, x)
  BY <1>2, <1>3, <1>4, <1>6, <1>7 DEF Begins
<1> QED
  BY <1>3, <1>8 DEF x, y, V, R

\* A sign and what follows it are found in the value and in the rest of the
\* text alike.
LEMMA SameSignAndMagnitude ==
    ASSUME NEW v \in Seq(Free), NEW r, Begins(r, v)
    PROVE  /\ Sign(r) = Sign(v)
           /\ Magnitude(v) \in Seq(Free)
           /\ Begins(Magnitude(r), Magnitude(v))
<1>1. Len(v) \in Nat
  BY LenProperties
<1>2. Semicolon \notin {Minus, Plus} /\ EOF \notin {Minus, Plus}
  BY DEF Semicolon, EOF, Minus, Plus
<1>3. \/ get(r, 1) = get(v, 1) /\ 1 <= Len(v)
      \/ get(r, 1) = Semicolon /\ get(v, 1) = EOF
  <2>1. 1 \in Nat \ {0} /\ 1 <= Len(v) + 1 /\ (1 <= Len(v) \/ 1 = Len(v) + 1)
    BY <1>1
  <2> QED
    BY <2>1, GetOfBegins
<1>4. Sign(r) = Sign(v)
  BY <1>2, <1>3 DEF Sign
<1>5. CASE get(v, 1) \in {Minus, Plus}
  <2>1. get(r, 1) \in {Minus, Plus} /\ 1 <= Len(v)
    BY <1>2, <1>3, <1>5
  <2>2. Magnitude(r) = SubSeq(r, 2, Len(r)) /\ Magnitude(v) = SubSeq(v, 2, Len(v))
    BY <1>5, <2>1 DEF Magnitude
  <2>3. 2 \in Nat \ {0} /\ 2 <= Len(v) + 1
    BY <1>1, <2>1
  <2> QED
    BY <1>4, <2>2, <2>3, BeginsBehind
<1>6. CASE get(v, 1) \notin {Minus, Plus}
  <2>1. get(r, 1) \notin {Minus, Plus}
    BY <1>2, <1>3, <1>6
  <2>2. Magnitude(r) = r /\ Magnitude(v) = v
    BY <1>6, <2>1 DEF Magnitude
  <2> QED
    BY <1>4, <2>2
<1> QED
  BY <1>5, <1>6

\* The digits in front of a text are within it.
LEMMA PrefixBounds ==
    ASSUME NEW S, NEW s \in Seq(S), NEW chars
    PROVE  Prefix(s, chars) \in 0 .. Len(s)
<1> DEFINE T == {n \in 0 .. Len(s) : \A i \in 1 .. n : s[i] \in chars}
<1>1. Len(s) \in Nat
  BY LenProperties
<1>2. 0 \in T /\ T \subseteq 0 .. Len(s)
  BY <1>1
<1>3. Prefix(s, chars) = Max(T)
  BY DEF Prefix
<1> HIDE DEF T
<1>4. PICK x \in T : \A y \in T : y <= x
  BY <1>1, <1>2, GreatestElement
<1>5. Max(T) = x
  <2>1. T \subseteq Nat
    BY <1>2
  <2> QED
    BY <1>4, <2>1, GreatestIsMax
<1> QED
  BY <1>2, <1>3, <1>5

\* The digits in front of a value end with it: a semicolon is no digit.
LEMMA SamePrefix ==
    ASSUME NEW v \in Seq(Free), NEW r, Begins(r, v)
    PROVE  Prefix(r, Digits) = Prefix(v, Digits)
<1> DEFINE T(s) == {n \in 0 .. Len(s) : \A i \in 1 .. n : s[i] \in Digits}
<1>1. Len(v) \in Nat /\ Len(r) \in Nat /\ Len(v) < Len(r)
  BY LenProperties DEF Begins
<1>2. (\A j \in 1 .. Len(v) : r[j] = v[j]) /\ r[Len(v) + 1] = Semicolon
  BY DEF Begins
<1>3. Semicolon \notin Digits
  BY DEF Semicolon, Digits
<1>4. ASSUME NEW n \in T(v) PROVE n \in T(r)
  <2>1. n \in 0 .. Len(r) /\ \A i \in 1 .. n : i \in 1 .. Len(v)
    BY <1>1
  <2> QED
    BY <1>2, <2>1
<1>5. ASSUME NEW n \in T(r) PROVE n \in T(v)
  <2>1. n <= Len(v)
    <3> SUFFICES ASSUME n > Len(v) PROVE FALSE
      BY <1>1
    <3>1. Len(v) + 1 \in 1 .. n
      BY <1>1
    <3> QED
      BY <1>2, <1>3, <3>1
  <2>2. n \in 0 .. Len(v) /\ \A i \in 1 .. n : i \in 1 .. Len(v)
    BY <1>1, <2>1
  <2> QED
    BY <1>2, <2>2
<1>6. T(r) = T(v)
  BY <1>4, <1>5
<1>7. Prefix(r, Digits) = Max(T(r)) /\ Prefix(v, Digits) = Max(T(v))
  BY DEF Prefix
<1> HIDE DEF T
<1> QED
  BY <1>6, <1>7

\* The digits in front are the same in the value and in the rest of the text.
LEMMA SameBeginning ==
    ASSUME NEW v \in Seq(Free), NEW r, Begins(r, v), NEW n \in 0 .. Len(v)
    PROVE  SubSeq(r, 1, n) = SubSeq(v, 1, n)
<1>1. Len(v) \in Nat /\ Len(r) \in Nat /\ Len(v) < Len(r) /\ r \in Seq(Byte) /\ n \in Nat
  BY LenProperties DEF Begins
<1>2. v \in Seq(Byte)
  <2>1. Free \subseteq Byte
    BY DEF Free
  <2> QED
    BY <2>1, SeqMonotone
<1>3. 1 \in Nat \ {0} /\ 1 + n <= Len(v) + 1 /\ 1 + n <= Len(r) + 1 /\ 1 + n - 1 = n
      /\ \A j \in 1 .. n : 1 + j - 1 = j /\ j \in 1 .. Len(v)
  BY <1>1
<1>4. /\ SubSeq(r, 1, n) \in Seq(Byte) /\ Len(SubSeq(r, 1, n)) = n
      /\ \A j \in 1 .. n : SubSeq(r, 1, n)[j] = r[j]
  <2>1. /\ SubSeq(r, 1, 1 + n - 1) \in Seq(Byte) /\ Len(SubSeq(r, 1, 1 + n - 1)) = n
        /\ \A j \in 1 .. n : SubSeq(r, 1, 1 + n - 1)[j] = r[1 + j - 1]
    BY <1>1, <1>3, SubSeqElements
  <2> QED
    BY <1>3, <2>1
<1>5. /\ SubSeq(v, 1, n) \in Seq(Byte) /\ Len(SubSeq(v, 1, n)) = n
      /\ \A j \in 1 .. n : SubSeq(v, 1, n)[j] = v[j]
  <2>1. /\ SubSeq(v, 1, 1 + n - 1) \in Seq(Byte) /\ Len(SubSeq(v, 1, 1 + n - 1)) = n
        /\ \A j \in 1 .. n : SubSeq(v, 1, 1 + n - 1)[j] = v[1 + j - 1]
    BY <1>1, <1>2, <1>3, SubSeqElements
  <2> QED
    BY <1>3, <2>1
<1>6. \A j \in 1 .. n : SubSeq(r, 1, n)[j] = SubSeq(v, 1, n)[j]
  <2>1. \A j \in 1 .. n : r[j] = v[j]
    BY <1>3 DEF Begins
  <2> QED
    BY <1>4, <1>5, <2>1
<1> QED
  BY <1>4, <1>5, <1>6, SeqEqual

\* stoi reads the same integer from the rest of the text as from the value.
LEMMA SameInteger ==
    ASSUME NEW v \in Seq(Free), NEW r, Begins(r, v)
    PROVE  ToInteger(r) = ToInteger(v)
<1> DEFINE x == Magnitude(v)
           y == Magnitude(r)
           n == Prefix(x, Digits)
<1>1. Sign(r) = Sign(v) /\ x \in Seq(Free) /\ Begins(y, x)
  BY SameSignAndMagnitude
<1> HIDE DEF x, y
<1>2. Prefix(y, Digits) = n /\ n \in 0 .. Len(x)
  BY <1>1, SamePrefix, PrefixBounds
<1> HIDE DEF n
<1>3. SubSeq(y, 1, Prefix(y, Digits)) = SubSeq(x, 1, n)
  BY <1>1, <1>2, SameBeginning
<1> QED
  BY <1>1, <1>3, Zenon DEF ToInteger, x, y, n

\* strtof reads the same number from the rest of the text as from the value.
LEMMA SameFloat ==
    ASSUME NEW v \in Seq(Free), NEW r, Begins(r, v)
    PROVE  ToFloat(r) = ToFloat(v)
<1> DEFINE Behind(s) == SubSeq(s, Prefix(s, Digits) + 2, Len(s))
           Decimals(s) == IF get(s, Prefix(s, Digits) + 1) = Point
                          THEN Prefix(Behind(s), Digits) ELSE 0
           Seen(s) == SubSeq(s, 1, Prefix(s, Digits)) \o SubSeq(Behind(s), 1, Decimals(s))
           x == Magnitude(v)
           y == Magnitude(r)
           n == Prefix(x, Digits)
<1>1. Sign(r) = Sign(v) /\ x \in Seq(Free) /\ Begins(y, x)
  BY SameSignAndMagnitude
<1>2. /\ ToFloat(v) = Decimal(Sign(v) * Natural(Seen(x)), -Decimals(x))
      /\ ToFloat(r) = Decimal(Sign(r) * Natural(Seen(y)), -Decimals(y))
  BY Zenon DEF ToFloat
<1> HIDE DEF x, y
<1>3. Prefix(y, Digits) = n /\ n \in 0 .. Len(x) /\ Len(x) \in Nat
  BY <1>1, SamePrefix, PrefixBounds, LenProperties
<1>4. SubSeq(y, 1, n) = SubSeq(x, 1, n)
  <2> HIDE DEF n
  <2> QED
    BY <1>1, <1>3, SameBeginning
<1>5. Semicolon # Point /\ EOF # Point
  BY DEF Semicolon, EOF, Point
<1>6. /\ Decimals(y) = Decimals(x)
      /\ SubSeq(Behind(y), 1, Decimals(y)) = SubSeq(Behind(x), 1, Decimals(x))
  <2>1. /\ n + 1 <= Len(x) => get(y, n + 1) = get(x, n + 1)
        /\ n + 1 = Len(x) + 1 => get(y, n + 1) = Semicolon /\ get(x, n + 1) = EOF
    <3>1. n + 1 \in Nat \ {0} /\ n + 1 <= Len(x) + 1
      BY <1>3
    <3> HIDE DEF n
    <3> QED
      BY <1>1, <3>1, GetOfBegins
  <2>2. CASE get(x, n + 1) = Point
    <3>1. n + 1 <= Len(x) /\ get(y, n + 1) = Point
      <4>1. n + 1 <= Len(x) \/ n + 1 = Len(x) + 1
        BY <1>3
      <4> QED
        BY <1>5, <2>1, <2>2, <4>1
    <3>2. n + 2 \in Nat \ {0} /\ n + 2 <= Len(x) + 1
      BY <1>3, <3>1
    <3>3. Behind(x) = SubSeq(x, n + 2, Len(x)) /\ Behind(y) = SubSeq(y, n + 2, Len(y))
      BY <1>3, Zenon
    <3>4. Behind(x) \in Seq(Free) /\ Begins(Behind(y), Behind(x))
      <4> HIDE DEF n, Behind
      <4> QED
        BY <1>1, <3>2, <3>3, BeginsBehind
    <3>5. Decimals(x) = Prefix(Behind(x), Digits) /\ Decimals(y) = Prefix(Behind(y), Digits)
      BY <1>3, <2>2, <3>1, Zenon
    <3> HIDE DEF Behind, n
    <3>6. Prefix(Behind(y), Digits) = Prefix(Behind(x), Digits)
          /\ Prefix(Behind(x), Digits) \in 0 .. Len(Behind(x))
      BY <3>4, SamePrefix, PrefixBounds
    <3>7. SubSeq(Behind(y), 1, Prefix(Behind(x), Digits))
              = SubSeq(Behind(x), 1, Prefix(Behind(x), Digits))
      BY <3>4, <3>6, SameBeginning
    <3> QED
      BY <3>5, <3>6, <3>7, Zenon
  <2>3. CASE get(x, n + 1) # Point
    <3>1. get(y, n + 1) # Point
      <4>1. n + 1 <= Len(x) \/ n + 1 = Len(x) + 1
        BY <1>3
      <4> QED
        BY <1>5, <2>1, <2>3, <4>1
    <3>2. Decimals(x) = 0 /\ Decimals(y) = 0
      BY <1>3, <2>3, <3>1, Zenon
    <3>3. \A s : SubSeq(s, 1, 0) = <<>>
      BY SubSeqEmpty
    <3> HIDE DEF Behind, Decimals
    <3> QED
      BY <3>2, <3>3, Zenon
  <2> QED
    BY <2>2, <2>3
<1>7. Seen(y) = Seen(x)
  BY <1>3, <1>4, <1>6, Zenon
<1> HIDE DEF Seen, Decimals
<1> QED
  BY <1>1, <1>2, <1>6, <1>7, Zenon

\* No digits are the number 0.
LEMMA NoDigits == Natural(<<>>) = 0
<1> DEFINE f == [s \in SUBSET {} |-> 0]
<1>1. DOMAIN <<>> = {}
  OBVIOUS
<1> QED
  BY <1>1 DEF Natural, FoldLeft, MapThenFoldSet

\* The empty text is read as the number 0.
LEMMA NoNumber == ToInteger(<<>>) = 0 /\ ToFloat(<<>>) = <<0, 0>>
<1> DEFINE e == <<>>
<1>1. e \in Seq({}) /\ Len(e) = 0
  BY EmptySeq
<1>2. \A s, a, b : a > b /\ a \in Int /\ b \in Int => SubSeq(s, a, b) = e
  BY SubSeqEmpty
<1>3. Natural(e) = 0
  BY NoDigits
<1> HIDE DEF e
<1>4. get(e, 1) = EOF /\ EOF \notin {Minus, Plus, Point}
  BY <1>1 DEF get, EOF, Minus, Plus, Point
<1>5. Sign(e) = 1 /\ Magnitude(e) = e
  BY <1>4 DEF Sign, Magnitude, Minus
<1>6. Prefix(e, Digits) = 0
  <2>1. Prefix(e, Digits) \in 0 .. 0
    BY <1>1, PrefixBounds
  <2> QED
    BY <2>1
<1>7. SubSeq(e, 1, Prefix(e, Digits)) = e
  <2>1. 1 > 0 /\ 1 \in Int /\ 0 \in Int
    OBVIOUS
  <2> QED
    BY <1>2, <1>6, <2>1
<1>8. ToInteger(e) = 0
  <2>1. Sign(e) * Natural(e) = 0
    BY <1>3, <1>5
  <2>2. ToInteger(e) = IF 0 \in -(IntWrap \div 2) .. IntWrap \div 2 - 1 THEN 0 ELSE 0
    BY <1>5, <1>7, <2>1, Zenon DEF ToInteger
  <2> QED
    BY <2>2
<1>9. ToFloat(e) = <<0, 0>>
  <2> DEFINE behind == SubSeq(e, Prefix(e, Digits) + 2, Len(e))
             decimals == IF get(e, Prefix(e, Digits) + 1) = Point THEN Prefix(behind, Digits) ELSE 0
  <2>1. Prefix(e, Digits) + 1 = 1
    BY <1>6
  <2>2. decimals = 0
    BY <1>4, <2>1
  <2>3. SubSeq(behind, 1, decimals) = e
    <3>1. 1 > 0 /\ 1 \in Int /\ 0 \in Int
      OBVIOUS
    <3> HIDE DEF behind
    <3> QED
      BY <1>2, <2>2, <3>1
  <2>4. e \o e = e
    BY <1>1, ConcatEmptySeq DEF e
  <2>5. ToFloat(e) = Decimal(Sign(e) * Natural(SubSeq(e, 1, Prefix(e, Digits))
                                                   \o SubSeq(behind, 1, decimals)),
                             -decimals)
    BY <1>5, Zenon DEF ToFloat
  <2> HIDE DEF behind, decimals
  <2>6. ToFloat(e) = Decimal(Sign(e) * Natural(e), -decimals)
    BY <1>7, <2>3, <2>4, <2>5, Zenon
  <2>7. Sign(e) * Natural(e) = 0
    BY <1>3, <1>5
  <2> QED
    BY <2>6, <2>7 DEF Decimal
<1> QED
  BY <1>8, <1>9 DEF e

-----------------------------------------------------------------------------
(* Events *)

\* A text that ends in another one, as IsSuffix and as EndsIn say it.
LEMMA SuffixIsEnd ==
    ASSUME NEW S, NEW s \in Seq(S), NEW k \in Seq(S)
    PROVE  EndsIn(s, k) => IsSuffix(k, s)
<1> DEFINE K == Len(k)
           L == Len(s)
           x == Reverse(k)
           y == Reverse(s)
<1>1. K \in Nat /\ L \in Nat
  BY LenProperties
<1> SUFFICES ASSUME EndsIn(s, k) PROVE IsPrefix(x, y)
  BY DEF IsSuffix
<1>2. K <= L /\ \A j \in 1 .. K : s[L - K + j] = k[j]
  BY DEF EndsIn
<1>3. x = [i \in 1 .. K |-> k[(K - i) + 1]] /\ y = [i \in 1 .. L |-> s[(L - i) + 1]]
  BY DEF Reverse
<1> HIDE DEF K, L, x, y
<1>4. (\A i \in 1 .. K : k[i] \in S) /\ (\A i \in 1 .. L : s[i] \in S)
  BY ElementOfSeq DEF K, L
<1>5. x \in Seq(S) /\ Len(x) = K /\ \A i \in 1 .. K : x[i] = k[(K - i) + 1]
  <2>1. \A i \in 1 .. K : (K - i) + 1 \in 1 .. K
    BY <1>1
  <2>2. x \in [1 .. K -> S]
    BY <1>3, <1>4, <2>1
  <2> QED
    BY <1>1, <1>3, <2>2, FunctionIsSeq
<1>6. y \in Seq(S) /\ Len(y) = L /\ \A i \in 1 .. L : y[i] = s[(L - i) + 1]
  <2>1. \A i \in 1 .. L : (L - i) + 1 \in 1 .. L
    BY <1>1
  <2>2. y \in [1 .. L -> S]
    BY <1>3, <1>4, <2>1
  <2> QED
    BY <1>1, <1>3, <2>2, FunctionIsSeq
<1>7. \A i \in 1 .. K : x[i] = y[i]
  <2> TAKE i \in 1 .. K
  <2>1. (K - i) + 1 \in 1 .. K /\ L - K + ((K - i) + 1) = (L - i) + 1 /\ i \in 1 .. L
    BY <1>1, <1>2
  <2>2. s[L - K + ((K - i) + 1)] = k[(K - i) + 1]
    BY <1>2, <2>1
  <2> QED
    BY <1>5, <1>6, <2>1, <2>2
<1>8. SubSeq(x, 1, K) = SubSeq(y, 1, K)
  <2>1. 1 \in Nat \ {0} /\ 1 + K <= K + 1 /\ 1 + K <= L + 1 /\ 1 + K - 1 = K
        /\ \A j \in 1 .. K : 1 + j - 1 = j
    BY <1>1, <1>2
  <2>2. /\ SubSeq(x, 1, K) \in Seq(S) /\ Len(SubSeq(x, 1, K)) = K
        /\ \A j \in 1 .. K : SubSeq(x, 1, K)[j] = x[j]
    <3>1. /\ SubSeq(x, 1, 1 + K - 1) \in Seq(S) /\ Len(SubSeq(x, 1, 1 + K - 1)) = K
          /\ \A j \in 1 .. K : SubSeq(x, 1, 1 + K - 1)[j] = x[1 + j - 1]
      BY <1>1, <1>5, <2>1, SubSeqElements
    <3> QED
      BY <2>1, <3>1
  <2>3. /\ SubSeq(y, 1, K) \in Seq(S) /\ Len(SubSeq(y, 1, K)) = K
        /\ \A j \in 1 .. K : SubSeq(y, 1, K)[j] = y[j]
    <3>1. /\ SubSeq(y, 1, 1 + K - 1) \in Seq(S) /\ Len(SubSeq(y, 1, 1 + K - 1)) = K
          /\ \A j \in 1 .. K : SubSeq(y, 1, 1 + K - 1)[j] = y[1 + j - 1]
      BY <1>1, <1>6, <2>1, SubSeqElements
    <3> QED
      BY <2>1, <3>1
  <2> QED
    BY <1>7, <2>2, <2>3, SeqEqual
<1> QED
  BY <1>2, <1>5, <1>6, <1>8 DEF IsPrefix

\* The fields are of the events of some class and each key is among them
\* once.
AllFields == UNION {FieldsOf(c) : c \in DOMAIN Fields}
EventInv ==
    /\ fields \in Seq(AllFields)
    /\ \A i, j \in DOMAIN fields : fields[i][1] = fields[j][1] => i = j

\* EventInv is an invariant of the events as tellstick-server puts them
\* together: an event has a field of each key at most once.
THEOREM KeysOnce == EventSpec => []EventInv
<1>1. EventInit => EventInv
  <2>1. <<>> \in Seq(AllFields) /\ DOMAIN <<>> = {}
    BY EmptySeq
  <2> QED
    BY <2>1 DEF EventInit, EventInv
<1>2. EventInv /\ [EventNext]_fields => EventInv'
  <2> SUFFICES ASSUME EventInv, [EventNext]_fields PROVE EventInv'
    OBVIOUS
  <2>1. CASE UNCHANGED fields
    BY <2>1 DEF EventInv
  <2>2. CASE EventNext
    <3>0. PICK class \in DOMAIN Fields : \E field \in FieldsOf(class) : AddField(class, field)
      BY <2>2 DEF EventNext
    <3>1. PICK field \in FieldsOf(class) : AddField(class, field)
      BY <3>0
    <3>2. field \in AllFields
      BY <3>1 DEF AllFields
    <3>3. fields' = Append(fields, field) /\ \A i \in DOMAIN fields : fields[i][1] # field[1]
      <4>1. CASE fields = <<>>
        <5>1. DOMAIN fields = {}
          BY <4>1
        <5> QED
          BY <3>1, <5>1 DEF AddField
      <4>2. CASE fields # <<>>
        BY <3>1, <4>2 DEF AddField
      <4> QED
        BY <4>1, <4>2
    <3> DEFINE n == Len(fields)
    <3>4. n \in Nat /\ DOMAIN fields = 1 .. n /\ fields \in Seq(AllFields)
      BY LenProperties DEF EventInv
    <3>5. /\ fields' \in Seq(AllFields) /\ Len(fields') = n + 1 /\ fields'[n + 1] = field
          /\ \A i \in 1 .. n : fields'[i] = fields[i]
      <4>1. /\ Append(fields, field) \in Seq(AllFields)
            /\ Len(Append(fields, field)) = Len(fields) + 1
            /\ Append(fields, field)[Len(fields) + 1] = field
            /\ \A i \in 1 .. Len(fields) : Append(fields, field)[i] = fields[i]
        BY <3>2, <3>4, AppendProperties
      <4> QED
        BY <3>3, <4>1
    <3>6. DOMAIN fields' = 1 .. n + 1
      BY <3>5, LenProperties
    <3> HIDE DEF n
    <3>7. ASSUME NEW i \in 1 .. n + 1, NEW j \in 1 .. n + 1, fields'[i][1] = fields'[j][1]
          PROVE  i = j
      <4>1. (i \in 1 .. n \/ i = n + 1) /\ (j \in 1 .. n \/ j = n + 1)
        BY <3>4
      <4> QED
        BY <3>3, <3>4, <3>5, <3>7, <4>1 DEF EventInv
    <3> QED
      BY <3>5, <3>6, <3>7 DEF EventInv
  <2> QED
    BY <2>1, <2>2
<1> QED
  BY <1>1, <1>2, PTL DEF EventSpec

EntryOf(f) == <<Bytes(f[1]), Bytes(f[2])>>
EntriesOf == [i \in DOMAIN fields |-> EntryOf(fields[i])]

\* What the assumptions say of one field.
GoodField(f) ==
    /\ EntryOf(f) \in Entries
    /\ \A key \in Keys : EndsIn(Bytes(f[1]), Bytes(key)) => f[1] = key
    /\ \A name \in Names : Bytes(f[2]) = Bytes(name) => f[2] = name
    /\ f[3] = MeaningOf(f[1], f[2])
    /\ f[1] = "humidity" => f[3] >= 0

\* IsFree, of the assumption, says that a text has neither separator.
LEMMA TextIsFree ==
    /\ \A text : IsFree(text) <=> text \in Seq(Free)
    /\ \A text \in Keys \union Names : Bytes(text) \in Seq(Free) /\ Bytes(text) # <<>>
<1>1. \A text : IsFree(text) <=> text \in Seq(Free)
  BY Zenon DEF IsFree, Free
<1> QED
  BY <1>1, TextsOfParse

\* The assumptions on the fields and their texts are about every field.
LEMMA AllFieldsAreGood == ASSUME NEW f \in AllFields PROVE GoodField(f)
<1>1. PICK class \in DOMAIN Fields : f \in FieldsOf(class)
  BY DEF AllFields
<1>2. /\ IsFree(Bytes(f[1])) /\ IsFree(Bytes(f[2]))
      /\ \A key \in Keys : IsSuffix(Bytes(key), Bytes(f[1])) => f[1] = key
      /\ \A name \in Names : Bytes(f[2]) = Bytes(name) => f[2] = name
      /\ f[3] = MeaningOf(f[1], f[2])
      /\ f[1] = "humidity" => f[3] >= 0
  BY <1>1, FieldsAssumption
<1>3. Bytes(f[1]) \in Seq(Free) /\ Bytes(f[2]) \in Seq(Free)
  BY <1>2, TextIsFree
<1>4. EntryOf(f) \in Entries
  BY <1>3 DEF EntryOf, Entries
<1>5. ASSUME NEW key \in Keys, EndsIn(Bytes(f[1]), Bytes(key)) PROVE f[1] = key
  <2>1. Bytes(key) \in Seq(Free)
    BY TextIsFree
  <2> QED
    BY <1>2, <1>3, <1>5, <2>1, SuffixIsEnd
<1> QED
  BY <1>2, <1>4, <1>5 DEF GoodField

\* The text of an event is that of its fields as bytes.
LEMMA EventTextIsBytes ==
    ASSUME EventInv
    PROVE  /\ EntriesOf \in Seq(Entries) /\ Len(EntriesOf) = Len(fields)
           /\ DOMAIN fields = 1 .. Len(fields) /\ Len(fields) \in Nat
           /\ \A i \in DOMAIN fields : /\ GoodField(fields[i])
                                       /\ EntriesOf[i][1] = Bytes(fields[i][1])
                                       /\ EntriesOf[i][2] = Bytes(fields[i][2])
           /\ EventText = EventBytes(EntriesOf)
<1>1. /\ Len(fields) \in Nat /\ DOMAIN fields = 1 .. Len(fields)
      /\ \A i \in 1 .. Len(fields) : fields[i] \in AllFields
  BY LenProperties, ElementOfSeq DEF EventInv
<1>2. \A i \in DOMAIN fields : GoodField(fields[i])
  BY <1>1, AllFieldsAreGood
<1>3. EntriesOf \in [1 .. Len(fields) -> Entries]
  BY <1>1, <1>2 DEF EntriesOf, GoodField
<1>4. EntriesOf \in Seq(Entries) /\ Len(EntriesOf) = Len(fields)
  BY <1>1, <1>3, FunctionIsSeq
<1>5. \A i \in DOMAIN fields : EntriesOf[i] = EntryOf(fields[i])
  BY DEF EntriesOf
<1>6. \A f : EntryOf(f)[1] = Bytes(f[1]) /\ EntryOf(f)[2] = Bytes(f[2])
  BY DEF EntryOf
<1>7. \A i \in DOMAIN fields : FieldText(fields[i]) = Entry(EntriesOf[i])
  <2> TAKE i \in DOMAIN fields
  <2>1. EntriesOf[i][1] = Bytes(fields[i][1]) /\ EntriesOf[i][2] = Bytes(fields[i][2])
    BY <1>5, <1>6
  <2> QED
    BY <2>1, Zenon DEF FieldText, Entry
<1>8. [i \in DOMAIN fields |-> FieldText(fields[i])]
          = [i \in DOMAIN EntriesOf |-> Entry(EntriesOf[i])]
  <2>1. DOMAIN EntriesOf = DOMAIN fields
    BY DEF EntriesOf
  <2> QED
    BY <1>7, <2>1, Zenon
<1>9. EventText = EventBytes(EntriesOf)
  BY <1>8, Zenon DEF EventText, EventBytes
<1> QED
  BY <1>1, <1>2, <1>4, <1>5, <1>6, <1>9

\* What Parse finds for a key, when a field has it and when none has.
ReadsAs(key, text) ==
    /\ StringOf(EventText, key) = text
    /\ IntOf(EventText, key) = ToInteger(text)
    /\ FloatOf(EventText, key) = ToFloat(text)

\* A key that an event has is read from its field.
LEMMA KeyPresent ==
    ASSUME EventInv, NEW key \in Keys, NEW m \in DOMAIN fields, fields[m][1] = key
    PROVE  /\ ReadsAs(key, Bytes(fields[m][2]))
           /\ \A default : Field(key, default) = fields[m][3]
<1> DEFINE k == Bytes(key)
           v == Bytes(fields[m][2])
           w == EventText
<1>1. k \in Seq(Free)
  BY TextIsFree
<1>2. /\ EntriesOf \in Seq(Entries) /\ m \in 1 .. Len(EntriesOf) /\ w = EventBytes(EntriesOf)
      /\ EntriesOf[m][1] = k /\ EntriesOf[m][2] = v
      /\ Len(EntriesOf) \in Nat /\ DOMAIN fields = 1 .. Len(EntriesOf)
  BY EventTextIsBytes
<1>3. v \in Seq(Free)
  <2>1. EntriesOf[m] \in Entries
    BY <1>2, ElementOfSeq
  <2> QED
    BY <1>2, <2>1 DEF Entries
<1>4. \A i \in 1 .. m - 1 : ~EndsIn(EntriesOf[i][1], EntriesOf[m][1])
  <2> SUFFICES ASSUME NEW i \in 1 .. m - 1, EndsIn(EntriesOf[i][1], EntriesOf[m][1]) PROVE FALSE
    OBVIOUS
  <2>1. i \in DOMAIN fields /\ i # m
    BY <1>2
  <2>2. GoodField(fields[i]) /\ EntriesOf[i][1] = Bytes(fields[i][1])
    BY <2>1, EventTextIsBytes
  <2>3. fields[i][1] = key
    BY <1>2, <2>2 DEF GoodField
  <2> QED
    BY <2>1, <2>3 DEF EventInv
<1> HIDE DEF w, k, v
<1>5. PICK p \in Nat : FirstToken(w, p, k, v)
  BY <1>2, <1>4, KeyInText
<1>6. /\ GetStringByToken(w, Marker(k), <<Semicolon>>) = v
      /\ Begins(AfterToken(w, Marker(k)), v)
  BY <1>1, <1>3, <1>5, ValueOfKey
<1>7. StringOf(w, key) = v
  BY <1>6, Zenon DEF StringOf, Marker, k
<1>8. IntOf(w, key) = ToInteger(v) /\ FloatOf(w, key) = ToFloat(v)
  <2>1. /\ ToInteger(AfterToken(w, Marker(k))) = ToInteger(v)
        /\ ToFloat(AfterToken(w, Marker(k))) = ToFloat(v)
    BY <1>3, <1>6, SameInteger, SameFloat
  <2> QED
    BY <2>1, Zenon DEF IntOf, FloatOf, Marker, k
<1>9. ASSUME NEW default PROVE Field(key, default) = fields[m][3]
  <2> DEFINE named == {fields[i] : i \in {j \in DOMAIN fields : fields[j][1] = key}}
  <2>1. named = {fields[m]}
    <3>1. \A j \in DOMAIN fields : fields[j][1] = key => j = m
      BY DEF EventInv
    <3> QED
      BY <3>1
  <2>2. Field(key, default) = IF named = {} THEN default ELSE (CHOOSE f \in named : TRUE)[3]
    BY Zenon DEF Field
  <2> HIDE DEF named
  <2> QED
    BY <2>1, <2>2
<1> QED
  BY <1>7, <1>8, <1>9 DEF ReadsAs, w, v

\* A key that an event does not have is read as empty, and 0.
LEMMA KeyAbsent ==
    ASSUME EventInv, NEW key \in Keys, \A m \in DOMAIN fields : fields[m][1] # key
    PROVE  /\ ReadsAs(key, <<>>)
           /\ \A default : Field(key, default) = default
<1> DEFINE k == Bytes(key)
           w == EventText
<1>1. k \in Seq(Free)
  BY TextIsFree
<1>2. /\ EntriesOf \in Seq(Entries) /\ w = EventBytes(EntriesOf)
      /\ DOMAIN fields = 1 .. Len(EntriesOf)
  BY EventTextIsBytes
<1>3. NoKeyEndsIn(EntriesOf, k)
  <2> SUFFICES ASSUME NEW i \in 1 .. Len(EntriesOf), EndsIn(EntriesOf[i][1], k) PROVE FALSE
    BY DEF NoKeyEndsIn
  <2>1. GoodField(fields[i]) /\ EntriesOf[i][1] = Bytes(fields[i][1]) /\ i \in DOMAIN fields
    BY <1>2, EventTextIsBytes
  <2> QED
    BY <2>1 DEF GoodField
<1> HIDE DEF w, k
<1>4. NoToken(w, k)
  BY <1>1, <1>2, <1>3, NoTokenWithoutKey
<1>5. GetStringByToken(w, Marker(k), <<Semicolon>>) = <<>> /\ AfterToken(w, Marker(k)) = <<>>
  BY <1>1, <1>4, NoValueOfKey
<1>6. StringOf(w, key) = <<>>
  BY <1>5, Zenon DEF StringOf, Marker, k
<1>7. IntOf(w, key) = ToInteger(<<>>) /\ FloatOf(w, key) = ToFloat(<<>>)
  BY <1>5, Zenon DEF IntOf, FloatOf, Marker, k
<1>8. ASSUME NEW default PROVE Field(key, default) = default
  <2> DEFINE named == {fields[i] : i \in {j \in DOMAIN fields : fields[j][1] = key}}
  <2>1. named = {}
    OBVIOUS
  <2>2. Field(key, default) = IF named = {} THEN default ELSE (CHOOSE f \in named : TRUE)[3]
    BY Zenon DEF Field
  <2> HIDE DEF named
  <2> QED
    BY <2>1, <2>2
<1> QED
  BY <1>6, <1>7, <1>8 DEF ReadsAs, w

\* What Parse reads for a key is what the field means.
LEMMA NumberIsRead ==
    ASSUME EventInv, NEW key \in NumberKeys
    PROVE  IntOf(EventText, key) = Field(key, 0)
<1>1. key \in Keys
  BY DEF Keys
<1>2. CASE \E m \in DOMAIN fields : fields[m][1] = key
  <2>1. PICK m \in DOMAIN fields : fields[m][1] = key
    BY <1>2
  <2>2. IntOf(EventText, key) = ToInteger(Bytes(fields[m][2])) /\ Field(key, 0) = fields[m][3]
    BY <1>1, <2>1, KeyPresent DEF ReadsAs
  <2>3. fields[m][3] = MeaningOf(key, fields[m][2])
    BY <2>1, EventTextIsBytes DEF GoodField
  <2> QED
    BY <2>2, <2>3 DEF MeaningOf
<1>3. CASE \A m \in DOMAIN fields : fields[m][1] # key
  BY <1>1, <1>3, KeyAbsent, NoNumber DEF ReadsAs
<1> QED
  BY <1>2, <1>3

\* The temperature is what the field says, or 0.
LEMMA TempIsRead ==
    ASSUME EventInv
    PROVE  FloatOf(EventText, "temp") = Field("temp", <<0, 0>>)
<1>1. "temp" \in Keys /\ "temp" \notin NumberKeys
  BY DEF Keys, NumberKeys
<1>2. CASE \E m \in DOMAIN fields : fields[m][1] = "temp"
  <2>1. PICK m \in DOMAIN fields : fields[m][1] = "temp"
    BY <1>2
  <2>2. /\ FloatOf(EventText, "temp") = ToFloat(Bytes(fields[m][2]))
        /\ Field("temp", <<0, 0>>) = fields[m][3]
    BY <1>1, <2>1, KeyPresent DEF ReadsAs
  <2>3. fields[m][3] = MeaningOf("temp", fields[m][2])
    BY <2>1, EventTextIsBytes DEF GoodField
  <2> QED
    BY <1>1, <2>2, <2>3 DEF MeaningOf
<1>3. CASE \A m \in DOMAIN fields : fields[m][1] # "temp"
  BY <1>1, <1>3, KeyAbsent, NoNumber DEF ReadsAs
<1> QED
  BY <1>2, <1>3

\* A name is what the field says, or the empty one.
LEMMA NameIsRead ==
    ASSUME EventInv, NEW key \in {"class", "protocol", "model", "method"}, NEW name \in Names
    PROVE  StringOf(EventText, key) = Bytes(name) <=> Field(key, "") = name
<1>1. key \in Keys /\ key \notin NumberKeys /\ key # "temp" /\ name # ""
  BY DEF Keys, NumberKeys, Names
<1>2. CASE \E m \in DOMAIN fields : fields[m][1] = key
  <2>1. PICK m \in DOMAIN fields : fields[m][1] = key
    BY <1>2
  <2>2. StringOf(EventText, key) = Bytes(fields[m][2]) /\ Field(key, "") = fields[m][3]
    BY <1>1, <2>1, KeyPresent DEF ReadsAs
  <2>3. GoodField(fields[m]) /\ fields[m][3] = MeaningOf(key, fields[m][2])
    BY <2>1, EventTextIsBytes DEF GoodField
  <2>4. fields[m][3] = fields[m][2]
    BY <1>1, <2>3 DEF MeaningOf
  <2>5. Bytes(fields[m][2]) = Bytes(name) => fields[m][2] = name
    BY <2>3 DEF GoodField
  <2> QED
    BY <2>2, <2>4, <2>5
<1>3. CASE \A m \in DOMAIN fields : fields[m][1] # key
  <2>1. StringOf(EventText, key) = <<>> /\ Field(key, "") = ""
    BY <1>1, <1>3, KeyAbsent DEF ReadsAs
  <2>2. Bytes(name) # <<>>
    BY TextIsFree
  <2> QED
    BY <1>1, <2>1, <2>2
<1> QED
  BY <1>2, <1>3

\* stoi returns an int.
LEMMA IntegerRange ==
    ASSUME NEW s, ToInteger(s) >= 0
    PROVE  ToInteger(s) % IntWrap = ToInteger(s)
<1> DEFINE half == IntWrap \div 2
           n == ToInteger(s)
<1>1. IntWrap \in Nat \ {0} /\ IntWrap % 2 = 0
  BY TextsAssumption
<1>2. half \in Nat /\ half <= IntWrap
  BY <1>1
<1>3. n \in -half .. half - 1 \/ n = 0
  BY DEF ToInteger
<1> HIDE DEF half, n
<1>4. n \in 0 .. IntWrap - 1
  BY <1>1, <1>2, <1>3 DEF n
<1>5. n % IntWrap = n
  BY <1>1, <1>4
<1> QED
  BY <1>5 DEF n

\* The humidity is no negative number, so it is left alone as an unsigned one.
LEMMA HumidityIsUnsigned ==
    ASSUME EventInv
    PROVE  IntOf(EventText, "humidity") % IntWrap = Field("humidity", 0)
<1>1. "humidity" \in NumberKeys /\ "humidity" \in Keys
  BY DEF Keys, NumberKeys
<1>2. IntOf(EventText, "humidity") = Field("humidity", 0)
  BY <1>1, NumberIsRead
<1>3. Field("humidity", 0) >= 0
  <2>1. CASE \E m \in DOMAIN fields : fields[m][1] = "humidity"
    <3>1. PICK m \in DOMAIN fields : fields[m][1] = "humidity"
      BY <2>1
    <3>2. Field("humidity", 0) = fields[m][3]
      BY <1>1, <3>1, KeyPresent
    <3> QED
      BY <3>1, <3>2, EventTextIsBytes DEF GoodField
  <2>2. CASE \A m \in DOMAIN fields : fields[m][1] # "humidity"
    <3>1. Field("humidity", 0) = 0
      BY <1>1, <2>2, KeyAbsent
    <3> QED
      BY <3>1
  <2> QED
    BY <2>1, <2>2
<1>4. IntOf(EventText, "humidity") = ToInteger(AfterToken(EventText, Bytes("humidity") \o <<Colon>>))
  BY DEF IntOf
<1> QED
  BY <1>2, <1>3, <1>4, IntegerRange

\* Five equations of the parts of a record are one of the records.
LEMMA FiveInARow ==
    ASSUME NEW a, NEW b, NEW c, NEW d, NEW e
    PROVE  <<a, b, c>> \o <<d, e>> = <<a, b, c, d, e>>
<1> DEFINE S == {a, b, c, d, e}
           x == <<a, b, c>>
           y == <<d, e>>
           z == <<a, b, c, d, e>>
<1>1. x \in Seq(S) /\ Len(x) = 3 /\ x[1] = a /\ x[2] = b /\ x[3] = c
  OBVIOUS
<1>2. y \in Seq(S) /\ Len(y) = 2 /\ y[1] = d /\ y[2] = e
  OBVIOUS
<1>3. z \in Seq(S) /\ Len(z) = 5 /\ z[1] = a /\ z[2] = b /\ z[3] = c /\ z[4] = d /\ z[5] = e
  OBVIOUS
<1> HIDE DEF x, y, z, S
<1>4. /\ x \o y \in Seq(S) /\ Len(x \o y) = Len(x) + Len(y)
      /\ \A i \in 1 .. Len(x) + Len(y) : (x \o y)[i] = IF i <= Len(x) THEN x[i] ELSE y[i - Len(x)]
  BY <1>1, <1>2, ConcatProperties
<1>5. Len(x \o y) = 5
  BY <1>1, <1>2, <1>4
<1>6. ASSUME NEW i \in 1 .. 5 PROVE (x \o y)[i] = z[i]
  <2>1. (x \o y)[i] = IF i <= 3 THEN x[i] ELSE y[i - 3]
    BY <1>1, <1>2, <1>4
  <2>2. i = 1 \/ i = 2 \/ i = 3 \/ i = 4 \/ i = 5
    OBVIOUS
  <2>3. i = 4 => i - 3 = 1
    OBVIOUS
  <2>4. i = 5 => i - 3 = 2
    OBVIOUS
  <2> QED
    BY <1>1, <1>2, <1>3, <2>1, <2>2, <2>3, <2>4
<1>7. x \o y = z
  BY <1>3, <1>4, <1>5, <1>6, SeqEqual
<1> QED
  BY <1>7 DEF x, y, z

\* The invariant of an event's fields is enough for what Parse reads from
\* their text.
LEMMA EventIsReceived == EventInv => EventAsReceived
<1> SUFFICES ASSUME EventInv PROVE EventAsReceived
  OBVIOUS
<1> DEFINE w == EventText
           Is(key, name) == Field(key, "") = name
<1>1. /\ StringOf(w, "class") = Bytes("sensor") <=> Is("class", "sensor")
      /\ StringOf(w, "class") = Bytes("command") <=> Is("class", "command")
      /\ StringOf(w, "protocol") = Bytes("mandolyn") <=> Is("protocol", "mandolyn")
      /\ StringOf(w, "protocol") = Bytes("arctech") <=> Is("protocol", "arctech")
      /\ StringOf(w, "model") = Bytes("temperaturehumidity") <=> Is("model", "temperaturehumidity")
      /\ StringOf(w, "model") = Bytes("selflearning") <=> Is("model", "selflearning")
      /\ StringOf(w, "method") = Bytes("turnon") <=> Is("method", "turnon")
  <2>1. /\ {"sensor", "command", "mandolyn", "arctech", "temperaturehumidity", "selflearning",
            "turnon"} \subseteq Names
    BY DEF Names
  <2> QED
    BY <2>1, NameIsRead
<1>2. /\ IntOf(w, "id") = Field("id", 0) /\ IntOf(w, "house") = Field("house", 0)
      /\ IntOf(w, "unit") = Field("unit", 0) /\ IntOf(w, "group") = Field("group", 0)
      /\ FloatOf(w, "temp") = Field("temp", <<0, 0>>)
      /\ IntOf(w, "humidity") % IntWrap = Field("humidity", 0)
  <2>1. {"id", "house", "unit", "group"} \subseteq NumberKeys
    BY DEF NumberKeys
  <2> QED
    BY <2>1, NumberIsRead, TempIsRead, HumidityIsUnsigned
<1>3. Is("class", "sensor") => ~Is("class", "command")
  OBVIOUS
<1> DEFINE Sensor == IF Is("protocol", "mandolyn")
                     THEN IF Is("model", "temperaturehumidity")
                          THEN <<"MANDOLYN_SENSOR", Field("id", 0), Field("temp", <<0, 0>>),
                                 "TEMPHUMIDITY", Field("humidity", 0)>>
                          ELSE <<"MANDOLYN_SENSOR", Field("id", 0), Field("temp", <<0, 0>>),
                                 "TEMP", 0>>
                     ELSE NoMessage
           Switch == <<"ARCTECH_SWITCH", Field("house", 0), Field("unit", 0), Field("group", 0),
                       Is("method", "turnon")>>
           Command == IF Is("protocol", "arctech") /\ Is("model", "selflearning") THEN Switch ELSE NoMessage
           tail == IF Is("model", "temperaturehumidity")
                   THEN <<"TEMPHUMIDITY", Field("humidity", 0)>> ELSE <<"TEMP", 0>>
           Full == <<"MANDOLYN_SENSOR", Field("id", 0), Field("temp", <<0, 0>>)>> \o tail
<1> HIDE DEF w
<1>4. ParseSensor(StringOf(w, "protocol"), w) = Sensor
  BY <1>1, <1>2, Zenon DEF ParseSensor
<1>5. ParseCommand(StringOf(w, "protocol"), w) = Command
  <2>1. (StringOf(w, "method") = Bytes("turnon")) = Is("method", "turnon")
    BY <1>1
  <2> HIDE DEF Is
  <2> QED
    BY <1>1, <1>2, <2>1, Zenon DEF ParseCommand
<1>6. Is("protocol", "mandolyn") => Full = Sensor
  <2> DEFINE first == <<"MANDOLYN_SENSOR", Field("id", 0), Field("temp", <<0, 0>>)>>
             five(type, value) == <<"MANDOLYN_SENSOR", Field("id", 0), Field("temp", <<0, 0>>),
                                    type, value>>
  <2>1. \A type, value : first \o <<type, value>> = five(type, value)
    BY FiveInARow, Zenon
  <2>2. Full = IF Is("model", "temperaturehumidity")
               THEN first \o <<"TEMPHUMIDITY", Field("humidity", 0)>> ELSE first \o <<"TEMP", 0>>
    <3> HIDE DEF first, Is
    <3>1. CASE Is("model", "temperaturehumidity")
      BY <3>1, Zenon DEF first
    <3>2. CASE ~Is("model", "temperaturehumidity")
      BY <3>2, Zenon DEF first
    <3> QED
      BY <3>1, <3>2, Zenon
  <2>3. Is("protocol", "mandolyn") =>
            Sensor = IF Is("model", "temperaturehumidity")
                     THEN five("TEMPHUMIDITY", Field("humidity", 0)) ELSE five("TEMP", 0)
    <3> HIDE DEF Is
    <3> QED
      BY Zenon
  <2> HIDE DEF first, five, Is, Full, Sensor
  <2>4. CASE Is("model", "temperaturehumidity")
    BY <2>1, <2>2, <2>3, <2>4, Zenon
  <2>5. CASE ~Is("model", "temperaturehumidity")
    BY <2>1, <2>2, <2>3, <2>5, Zenon
  <2> QED
    BY <2>4, <2>5
<1> DEFINE Expected == CASE Is("class", "sensor") /\ Is("protocol", "mandolyn") -> Full
                         [] /\ Is("class", "command") /\ Is("protocol", "arctech")
                            /\ Is("model", "selflearning") -> Switch
                         [] OTHER -> NoMessage
<1>7. EventAsReceived <=> Parse(w) = Expected
  BY Zenon DEF EventAsReceived, w
<1>8. Parse(w) =
          CASE StringOf(w, "class") = Bytes("sensor") -> ParseSensor(StringOf(w, "protocol"), w)
            [] StringOf(w, "class") = Bytes("command") -> ParseCommand(StringOf(w, "protocol"), w)
            [] OTHER -> NoMessage
  BY Zenon DEF Parse
<1> HIDE DEF Full, Switch, tail
<1>9. CASE Is("class", "sensor")
  <2>1. Parse(w) = Sensor
    <3>1. StringOf(w, "class") = Bytes("sensor") /\ StringOf(w, "class") # Bytes("command")
      BY <1>1, <1>3, <1>9
    <3> HIDE DEF Sensor, Is
    <3> QED
      BY <1>4, <1>8, <3>1
  <2>2. Expected = Sensor
    <3>1. CASE Is("protocol", "mandolyn")
      <4>1. Expected = Full
        <5> HIDE DEF Is
        <5> QED
          BY <1>3, <1>9, <3>1
      <4> QED
        BY <1>6, <3>1, <4>1, Zenon
    <3>2. CASE ~Is("protocol", "mandolyn")
      <4>1. Expected = NoMessage
        <5> HIDE DEF Is
        <5> QED
          BY <1>3, <1>9, <3>2
      <4> QED
        BY <3>2, <4>1, Zenon
    <3> QED
      BY <3>1, <3>2
  <2> QED
    BY <1>7, <2>1, <2>2, Zenon
<1>10. CASE ~Is("class", "sensor") /\ Is("class", "command")
  <2>1. Parse(w) = Command
    <3>1. StringOf(w, "class") # Bytes("sensor") /\ StringOf(w, "class") = Bytes("command")
      BY <1>1, <1>10
    <3> HIDE DEF Command, Is
    <3> QED
      BY <1>5, <1>8, <3>1
  <2>2. Expected = Command
    <3> HIDE DEF Is
    <3> QED
      BY <1>10
  <2> QED
    BY <1>7, <2>1, <2>2, Zenon
<1>11. CASE ~Is("class", "sensor") /\ ~Is("class", "command")
  <2>1. Parse(w) = NoMessage
    <3>1. StringOf(w, "class") # Bytes("sensor") /\ StringOf(w, "class") # Bytes("command")
      BY <1>1, <1>11
    <3> QED
      BY <1>8, <3>1
  <2>2. Expected = NoMessage
    <3> HIDE DEF Is
    <3> QED
      BY <1>11
  <2> QED
    BY <1>7, <2>1, <2>2, Zenon
<1> QED
  BY <1>9, <1>10, <1>11

\* An event is reported with the values of its own fields, whatever fields
\* telldus-core writes and in whatever order.
THEOREM EventSpecAsReceived == EventSpec => []EventAsReceived
  BY KeysOnce, EventIsReceived, PTL

-----------------------------------------------------------------------------
(* Strings as they are written *)

\* What one byte is written as: a letter behind a backslash, the byte itself,
\* or six bytes; no control character is among them.
LEMMA EscapeByteIsBytes ==
    ASSUME NEW c \in Byte
    PROVE  /\ EscapeByte(c) \in Seq(32 .. 255)
           /\ Letter(c) # -1 => EscapeByte(c) = <<Backslash, Letter(c)>> /\ Letter(c) \in 32 .. 127
           /\ Letter(c) = -1 /\ c \notin Control => EscapeByte(c) = <<c>>
<1>1. Letter(c) = -1 \/ Letter(c) \in 32 .. 127
  BY DEF Letter, Backslash, Quote
<1>2. Backslash \in 32 .. 127
  BY DEF Backslash
<1>3. CASE Letter(c) # -1
  <2>1. EscapeByte(c) = <<Backslash, Letter(c)>>
    BY <1>3 DEF EscapeByte
  <2>2. Backslash \in 32 .. 255 /\ Letter(c) \in 32 .. 255
    BY <1>1, <1>2, <1>3
  <2> QED
    BY <1>1, <1>3, <2>1, <2>2
<1>4. CASE Letter(c) = -1 /\ c \in Control
  <2> DEFINE hex(n) == IF n < 10 THEN 48 + n ELSE 87 + n
  <2>1. EscapeByte(c) = <<Backslash, 117, 48, 48, hex(c \div 16), hex(c % 16)>>
    BY <1>4, Zenon DEF EscapeByte
  <2>2. c \div 16 \in 0 .. 15 /\ c % 16 \in 0 .. 15
    BY <1>4 DEF Control
  <2>3. \A n \in 0 .. 15 : hex(n) \in 32 .. 255
    OBVIOUS
  <2> HIDE DEF hex
  <2>4. Backslash \in 32 .. 255 /\ hex(c \div 16) \in 32 .. 255 /\ hex(c % 16) \in 32 .. 255
    BY <1>2, <2>2, <2>3
  <2> QED
    BY <1>4, <2>1, <2>4
<1>5. CASE Letter(c) = -1 /\ c \notin Control
  <2>1. EscapeByte(c) = <<c>>
    BY <1>5 DEF EscapeByte
  <2>2. c \in 32 .. 255
    BY <1>5 DEF Control, Byte
  <2> QED
    BY <1>5, <2>1, <2>2
<1> QED
  BY <1>3, <1>4, <1>5

\* One more byte puts its escape behind what is written.
LEMMA EscapedAppend ==
    ASSUME NEW s \in Seq(Byte), NEW c \in Byte
    PROVE  /\ Escaped(s) \in Seq(32 .. 255)
           /\ Escaped(Append(s, c)) = Escaped(s) \o EscapeByte(c)
<1> DEFINE S == 32 .. 255
           pieces == [i \in DOMAIN s |-> EscapeByte(s[i])]
           more == [i \in DOMAIN Append(s, c) |-> EscapeByte(Append(s, c)[i])]
           n == Len(s)
<1>1. n \in Nat /\ DOMAIN s = 1 .. n /\ \A i \in 1 .. n : s[i] \in Byte
  BY LenProperties, ElementOfSeq
<1>2. /\ DOMAIN Append(s, c) = 1 .. n + 1 /\ Append(s, c)[n + 1] = c
      /\ \A i \in 1 .. n : Append(s, c)[i] = s[i]
  <2>1. /\ Append(s, c) \in Seq(Byte) /\ Len(Append(s, c)) = n + 1
        /\ Append(s, c)[n + 1] = c /\ \A i \in 1 .. n : Append(s, c)[i] = s[i]
    BY AppendProperties
  <2> QED
    BY <2>1, LenProperties
<1>3. \A b \in Byte : EscapeByte(b) \in Seq(S)
  BY EscapeByteIsBytes
<1> HIDE DEF S
<1>4. pieces \in [1 .. n -> Seq(S)]
  BY <1>1, <1>3
<1>5. pieces \in Seq(Seq(S)) /\ Len(pieces) = n
  <2> HIDE DEF pieces, n
  <2> QED
    BY <1>1, <1>4, FunctionIsSeq
<1>6. more = Append(pieces, EscapeByte(c))
  <2>1. more \in [1 .. n + 1 -> Seq(S)]
    <3>1. \A i \in 1 .. n + 1 : i \in 1 .. n \/ i = n + 1
      BY <1>1
    <3> HIDE DEF n
    <3>2. \A i \in 1 .. n + 1 : Append(s, c)[i] \in Byte
      BY <1>1, <1>2, <3>1
    <3> QED
      BY <1>2, <1>3, <3>2
  <2>2. more \in Seq(Seq(S)) /\ Len(more) = n + 1
    <3>1. n + 1 \in Nat
      BY <1>1
    <3> HIDE DEF more, n
    <3> QED
      BY <2>1, <3>1, FunctionIsSeq
  <2>3. /\ Append(pieces, EscapeByte(c)) \in Seq(Seq(S))
        /\ Len(Append(pieces, EscapeByte(c))) = n + 1
        /\ \A i \in 1 .. n : Append(pieces, EscapeByte(c))[i] = pieces[i]
        /\ Append(pieces, EscapeByte(c))[n + 1] = EscapeByte(c)
    <3> HIDE DEF pieces, n
    <3> QED
      BY <1>3, <1>5, AppendProperties
  <2>4. ASSUME NEW i \in 1 .. n + 1 PROVE more[i] = Append(pieces, EscapeByte(c))[i]
    <3>1. CASE i = n + 1
      BY <1>2, <2>3, <3>1
    <3>2. CASE i # n + 1
      <4>1. i \in 1 .. n
        BY <1>1, <3>2
      <4>2. more[i] = EscapeByte(s[i]) /\ pieces[i] = EscapeByte(s[i])
        BY <1>1, <1>2, <4>1
      <4> QED
        BY <2>3, <4>1, <4>2
    <3> QED
      BY <3>1, <3>2
  <2> HIDE DEF more, pieces, n
  <2> QED
    BY <2>2, <2>3, <2>4, SeqEqual
<1> HIDE DEF pieces, more, n
<1>7. FlattenSeq(pieces) \in Seq(S) /\ FlattenSeq(more) = FlattenSeq(pieces) \o EscapeByte(c)
  BY <1>3, <1>5, <1>6, FlattenAppend
<1> QED
  BY <1>7 DEF Escaped, pieces, more, S

\* ConcatAssociative, for texts.
LEMMA BytesAssociative ==
    \A x \in Seq(Byte) : \A y \in Seq(Byte) : \A z \in Seq(Byte) :
        (x \o y) \o z = x \o (y \o z)
  BY ConcatAssociative

\* What is written is bytes.
LEMMA EscapedInBytes == ASSUME NEW s \in Seq(Byte) PROVE Escaped(s) \in Seq(Byte)
<1>1. Escaped(s) \in Seq(32 .. 255)
  <2>1. 0 \in Byte
    BY DEF Byte
  <2> QED
    BY <2>1, EscapedAppend, ZenonT(40)
<1>2. 32 .. 255 \subseteq Byte
  BY DEF Byte
<1> QED
  BY <1>1, <1>2, SeqMonotone, ZenonT(40)

\* Nothing is written as nothing.
LEMMA EscapedEmpty == Escaped(<<>>) = <<>>
<1>1. [i \in DOMAIN <<>> |-> EscapeByte(<<>>[i])] = <<>>
  OBVIOUS
<1> QED
  BY <1>1, FlattenEmpty DEF Escaped

\* A text of one byte is written as that byte is.
LEMMA EscapedByte == ASSUME NEW b \in Byte PROVE Escaped(<<b>>) = EscapeByte(b)
<1>1. <<>> \in Seq(Byte) /\ Append(<<>>, b) = <<b>>
  OBVIOUS
<1>2. Escaped(<<b>>) = <<>> \o EscapeByte(b)
  BY <1>1, EscapedEmpty, EscapedAppend
<1>3. EscapeByte(b) \in Seq(32 .. 255)
  BY EscapeByteIsBytes
<1> HIDE DEF EscapeByte
<1> QED
  BY <1>2, <1>3, ConcatEmptySeq

\* What is written for two texts and a byte, in either order of putting it
\* together.
LEMMA EscapesInARow ==
    ASSUME NEW s \in Seq(Byte), NEW r \in Seq(Byte), NEW c \in Byte
    PROVE  (Escaped(s) \o Escaped(r)) \o EscapeByte(c)
               = Escaped(s) \o (Escaped(r) \o EscapeByte(c))
<1> DEFINE e == Escaped(s)
           f == Escaped(r)
           g == EscapeByte(c)
<1>1. EscapeByte(c) = Escaped(<<c>>) /\ <<c>> \in Seq(Byte)
  BY EscapedByte
<1>2. e \in Seq(Byte) /\ f \in Seq(Byte) /\ g \in Seq(Byte)
  BY <1>1, EscapedInBytes
<1> HIDE DEF e, f, g
<1>3. (e \o f) \o g = e \o (f \o g)
  BY <1>2, BytesAssociative, ZenonT(30)
<1> QED
  BY <1>3 DEF e, f, g

\* The escapes of two texts in a row are those of the one and of the other.
LEMMA EscapedConcat ==
    ASSUME NEW s \in Seq(Byte), NEW t \in Seq(Byte)
    PROVE  Escaped(s \o t) = Escaped(s) \o Escaped(t)
<1> DEFINE T == {n \in Nat : \A u \in Seq(Byte) :
                     Len(u) = n => Escaped(s \o u) = Escaped(s) \o Escaped(u)}
<1>1. 0 \in T
  <2> SUFFICES ASSUME NEW u \in Seq(Byte), Len(u) = 0
               PROVE  Escaped(s \o u) = Escaped(s) \o Escaped(u)
    OBVIOUS
  <2>1. u = <<>>
    BY EmptySeq
  <2>2. Escaped(s) \in Seq(32 .. 255)
    <3>1. 0 \in Byte
      BY DEF Byte
    <3> QED
      BY <3>1, EscapedAppend
  <2>3. s \o <<>> = s /\ Escaped(s) \o <<>> = Escaped(s)
    BY <2>2, ConcatEmptySeq
  <2> QED
    BY <2>1, <2>3, EscapedEmpty
<1>2. ASSUME NEW n \in Nat, n \in T PROVE n + 1 \in T
  <2> SUFFICES ASSUME NEW u \in Seq(Byte), Len(u) = n + 1
               PROVE  Escaped(s \o u) = Escaped(s) \o Escaped(u)
    OBVIOUS
  <2>1. u # <<>>
    BY EmptySeq
  <2>2. PICK r \in Seq(Byte), c \in Byte : u = Append(r, c)
    BY <2>1, SequenceEmptyOrAppend
  <2>3. Len(r) = n
    <3>1. Len(u) = Len(r) + 1 /\ Len(r) \in Nat
      BY <2>2, AppendProperties, LenProperties
    <3> QED
      BY <3>1
  <2>4. Escaped(s \o r) = Escaped(s) \o Escaped(r)
    BY <1>2, <2>3
  <2>5. s \o r \in Seq(Byte) /\ <<c>> \in Seq(Byte)
    BY ConcatProperties
  <2>6. s \o u = Append(s \o r, c)
    <3>1. Append(r, c) = r \o <<c>> /\ Append(s \o r, c) = (s \o r) \o <<c>>
      BY <2>5, AppendIsConcat
    <3>2. (s \o r) \o <<c>> = s \o (r \o <<c>>)
      BY <2>5, ConcatAssociative, SMTT(30)
    <3> QED
      BY <2>2, <3>1, <3>2
  <2>7. /\ Escaped(s \o u) = Escaped(s \o r) \o EscapeByte(c)
        /\ Escaped(u) = Escaped(r) \o EscapeByte(c)
    BY <2>2, <2>5, <2>6, EscapedAppend
  <2>8. (Escaped(s) \o Escaped(r)) \o EscapeByte(c) = Escaped(s) \o (Escaped(r) \o EscapeByte(c))
    BY EscapesInARow
  <2> QED
    BY <2>4, <2>7, <2>8
<1> HIDE DEF T
<1>3. Len(t) \in T
  BY <1>1, <1>2, Induction, LenProperties
<1> QED
  BY <1>3 DEF T

\* extra_space counts what escaping adds, for texts the function is defined
\* on one byte after the other.
Extra(c) == CASE Letter(c) # -1 -> 1
              [] Letter(c) = -1 /\ c \in Control -> 5
              [] OTHER -> 0

Counts(f, s) == f = [i \in 0 .. Len(s) |-> IF i = 0 THEN 0 ELSE f[i - 1] + Extra(s[i])]

\* The function by which extra_space counts exists.
LEMMA ExtraExists ==
    ASSUME NEW s \in Seq(Byte)
    PROVE  \E f : Counts(f, s)
<1> DEFINE N == Len(s)
           Is(f, n) == f = [i \in 0 .. n |-> IF i = 0 THEN 0 ELSE f[i - 1] + Extra(s[i])]
           T == {n \in Nat : \E f : Is(f, n)}
<1>1. 0 \in T
  <2>1. Is([i \in 0 .. 0 |-> 0], 0)
    OBVIOUS
  <2> QED
    BY <2>1
<1>2. ASSUME NEW n \in Nat, n \in T PROVE n + 1 \in T
  <2>1. PICK f : Is(f, n)
    BY <1>2
  <2> DEFINE g == [i \in 0 .. n + 1 |-> IF i <= n THEN f[i] ELSE f[n] + Extra(s[i])]
  <2>2. \A i \in 0 .. n : g[i] = f[i]
    OBVIOUS
  <2>3. ASSUME NEW i \in 0 .. n + 1
        PROVE  g[i] = IF i = 0 THEN 0 ELSE g[i - 1] + Extra(s[i])
    <3>1. CASE i <= n
      <4>1. i \in 0 .. n /\ (i # 0 => i - 1 \in 0 .. n)
        BY <3>1
      <4>2. f[i] = IF i = 0 THEN 0 ELSE f[i - 1] + Extra(s[i])
        BY <2>1, <4>1, Zenon
      <4> HIDE DEF g
      <4> QED
        BY <2>2, <4>1, <4>2
    <3>2. CASE ~(i <= n)
      <4>1. i = n + 1 /\ i # 0 /\ i - 1 = n /\ n \in 0 .. n
        BY <3>2
      <4>2. g[i] = f[n] + Extra(s[i])
        BY <3>2
      <4> HIDE DEF g
      <4> QED
        BY <2>2, <4>1, <4>2
    <3> QED
      BY <3>1, <3>2
  <2>4. g = [i \in 0 .. n + 1 |-> g[i]]
    OBVIOUS
  <2> HIDE DEF g
  <2>5. Is(g, n + 1)
    BY <2>3, <2>4
  <2> HIDE DEF Is
  <2> QED
    BY <2>5
<1> HIDE DEF T
<1>3. N \in T
  BY <1>1, <1>2, Induction, LenProperties
<1>4. \E f : Is(f, N)
  BY <1>3 DEF T
<1> QED
  BY <1>4 DEF Counts

\* extra_space is what that function counts.
LEMMA ExtraCounted ==
    ASSUME NEW s \in Seq(Byte)
    PROVE  \E f : Counts(f, s) /\ extra_space(s) = f[Len(s)]
<1> DEFINE h == CHOOSE f : Counts(f, s)
<1>1. Counts(h, s)
  BY ExtraExists
<1>2. extra_space(s) = h[Len(s)]
  BY Zenon DEF extra_space, Counts, Extra
<1> QED
  BY <1>1, <1>2

\* A byte is written as one byte and what extra_space counts for it.
LEMMA ExtraOfByte ==
    ASSUME NEW c \in Byte
    PROVE  /\ Extra(c) \in Nat /\ Len(EscapeByte(c)) = 1 + Extra(c)
           /\ Extra(c) = 0 => EscapeByte(c) = <<c>>
<1>1. CASE Letter(c) # -1
  <2>1. EscapeByte(c) = <<Backslash, Letter(c)>> /\ Extra(c) = 1
    BY <1>1 DEF EscapeByte, Extra
  <2> QED
    BY <2>1
<1>2. CASE Letter(c) = -1 /\ c \in Control
  <2> DEFINE hex(n) == IF n < 10 THEN 48 + n ELSE 87 + n
  <2>1. EscapeByte(c) = <<Backslash, 117, 48, 48, hex(c \div 16), hex(c % 16)>>
    BY <1>2, Zenon DEF EscapeByte
  <2>2. Extra(c) = 5
    BY <1>2 DEF Extra
  <2> HIDE DEF hex
  <2> QED
    BY <2>1, <2>2
<1>3. CASE Letter(c) = -1 /\ c \notin Control
  <2>1. EscapeByte(c) = <<c>> /\ Extra(c) = 0
    BY <1>3 DEF EscapeByte, Extra
  <2> QED
    BY <2>1
<1> QED
  BY <1>1, <1>2, <1>3

\* One more byte adds to extra_space what it counts for it.
LEMMA OneMore ==
    ASSUME NEW S, NEW s \in Seq(S), NEW n \in Nat, n < Len(s)
    PROVE  /\ SubSeq(s, 1, n) \in Seq(S) /\ Len(SubSeq(s, 1, n)) = n
           /\ SubSeq(s, 1, n + 1) = Append(SubSeq(s, 1, n), s[n + 1])
           /\ s[n + 1] \in S
<1> DEFINE a == SubSeq(s, 1, n)
           b == SubSeq(s, 1, n + 1)
<1>1. Len(s) \in Nat
  BY LenProperties
<1>2. 1 \in Nat \ {0} /\ 1 + n <= Len(s) + 1 /\ 1 + (n + 1) <= Len(s) + 1 /\ 1 + n - 1 = n
      /\ 1 + (n + 1) - 1 = n + 1 /\ n + 1 \in Nat /\ n + 1 \in 1 .. Len(s)
  BY <1>1
<1>3. a \in Seq(S) /\ Len(a) = n /\ \A j \in 1 .. n : a[j] = s[j]
  <2>1. /\ SubSeq(s, 1, 1 + n - 1) \in Seq(S) /\ Len(SubSeq(s, 1, 1 + n - 1)) = n
        /\ \A j \in 1 .. n : SubSeq(s, 1, 1 + n - 1)[j] = s[1 + j - 1]
    BY <1>2, SubSeqElements
  <2>2. \A j \in 1 .. n : 1 + j - 1 = j
    OBVIOUS
  <2> QED
    BY <1>2, <2>1, <2>2
<1>4. b \in Seq(S) /\ Len(b) = n + 1 /\ \A j \in 1 .. n + 1 : b[j] = s[j]
  <2>1. /\ SubSeq(s, 1, 1 + (n + 1) - 1) \in Seq(S) /\ Len(SubSeq(s, 1, 1 + (n + 1) - 1)) = n + 1
        /\ \A j \in 1 .. n + 1 : SubSeq(s, 1, 1 + (n + 1) - 1)[j] = s[1 + j - 1]
    BY <1>2, SubSeqElements
  <2>2. \A j \in 1 .. n + 1 : 1 + j - 1 = j
    OBVIOUS
  <2> QED
    BY <1>2, <2>1, <2>2
<1>5. s[n + 1] \in S
  BY <1>2, ElementOfSeq
<1> HIDE DEF a, b
<1>6. /\ Append(a, s[n + 1]) \in Seq(S) /\ Len(Append(a, s[n + 1])) = n + 1
      /\ \A j \in 1 .. n : Append(a, s[n + 1])[j] = a[j]
      /\ Append(a, s[n + 1])[n + 1] = s[n + 1]
  BY <1>3, <1>5, AppendProperties
<1>7. \A j \in 1 .. n + 1 : b[j] = Append(a, s[n + 1])[j]
  <2>1. \A j \in 1 .. n + 1 : j \in 1 .. n \/ j = n + 1
    OBVIOUS
  <2> QED
    BY <1>3, <1>4, <1>6, <2>1
<1>8. b = Append(a, s[n + 1])
  BY <1>4, <1>6, <1>7, SeqEqual
<1> QED
  BY <1>3, <1>5, <1>8 DEF a, b

\* The buffer that dump_escaped makes is full when it is done, as its
\* assertion says, and a text that needs no escape is copied.
THEOREM EscapedFits ==
    ASSUME NEW s \in Seq(Byte)
    PROVE  /\ Len(Escaped(s)) = Len(s) + extra_space(s)
           /\ extra_space(s) = 0 => Escaped(s) = s
<1> DEFINE N == Len(s)
           p(n) == SubSeq(s, 1, n)
<1>1. N \in Nat
  BY LenProperties
<1>2. PICK f : Counts(f, s) /\ extra_space(s) = f[Len(s)]
  BY ExtraCounted
<1>3. \A i \in 0 .. N : f[i] = IF i = 0 THEN 0 ELSE f[i - 1] + Extra(s[i])
  BY <1>2, Zenon DEF Counts
<1> DEFINE Fits(n) == /\ f[n] \in Nat /\ Len(Escaped(p(n))) = n + f[n]
                      /\ f[n] = 0 => Escaped(p(n)) = p(n)
           T == {n \in Nat : n <= N => Fits(n)}
<1>4. 0 \in T
  <2>1. p(0) = <<>>
    BY SubSeqEmpty
  <2>2. f[0] = 0
    BY <1>1, <1>3
  <2>3. Len(<<>>) = 0
    BY EmptySeq
  <2> HIDE DEF p
  <2> QED
    BY <2>1, <2>2, <2>3, EscapedEmpty
<1>5. ASSUME NEW n \in Nat, n \in T PROVE n + 1 \in T
  <2> SUFFICES ASSUME n + 1 <= N PROVE Fits(n + 1)
    OBVIOUS
  <2> DEFINE c == s[n + 1]
             e == Extra(c)
             old == Escaped(p(n))
             new == EscapeByte(c)
  <2>1. n < N /\ n <= N /\ n + 1 \in 0 .. N /\ n + 1 # 0 /\ (n + 1) - 1 = n
    BY <1>1
  <2>2. p(n) \in Seq(Byte) /\ Len(p(n)) = n /\ p(n + 1) = Append(p(n), c) /\ c \in Byte
    BY <2>1, OneMore
  <2>3. Fits(n)
    BY <1>5, <2>1
  <2> HIDE DEF p
  <2>4. f[n + 1] = f[n] + e
    BY <1>3, <2>1
  <2> HIDE DEF c
  <2>5. e \in Nat /\ Len(new) = 1 + e /\ (e = 0 => new = <<c>>)
    BY <2>2, ExtraOfByte
  <2>6. Escaped(p(n + 1)) = old \o new /\ old \in Seq(32 .. 255) /\ new \in Seq(32 .. 255)
    BY <2>2, EscapedAppend, EscapeByteIsBytes
  <2> HIDE DEF e, old, new
  <2>7. Len(old \o new) = Len(old) + Len(new)
    BY <2>6, ConcatProperties
  <2>8. f[n] \in Nat /\ Len(old) = n + f[n] /\ (f[n] = 0 => old = p(n))
    BY <2>3 DEF old
  <2>9. f[n + 1] \in Nat /\ Len(old \o new) = (n + 1) + f[n + 1]
    <3> DEFINE x == f[n]
               y == f[n + 1]
               both == Len(old \o new)
    <3>1. y = x + e /\ e \in Nat /\ x \in Nat /\ both = Len(old) + Len(new)
          /\ Len(old) = n + x /\ Len(new) = 1 + e
      BY <2>4, <2>5, <2>7, <2>8
    <3> HIDE DEF x, y, both
    <3>2. y \in Nat /\ both = (n + 1) + y
      BY <3>1
    <3> QED
      BY <3>2 DEF y, both
  <2>10. f[n + 1] = 0 => old \o new = p(n + 1)
    <3> SUFFICES ASSUME f[n + 1] = 0 PROVE old \o new = p(n + 1)
      OBVIOUS
    <3>1. f[n] = 0 /\ e = 0
      BY <2>4, <2>5, <2>8
    <3>2. old = p(n) /\ new = <<c>>
      BY <2>5, <2>8, <3>1
    <3>3. p(n + 1) = p(n) \o <<c>>
      BY <2>2, AppendIsConcat
    <3> QED
      BY <3>2, <3>3, Zenon
  <2> QED
    BY <2>6, <2>9, <2>10
<1> HIDE DEF T
<1>6. N \in T
  BY <1>1, <1>4, <1>5, Induction
<1>7. Fits(N)
  BY <1>1, <1>6 DEF T
<1>8. p(N) = s
  BY SubSeqFull
<1> HIDE DEF p
<1> QED
  BY <1>2, <1>7, <1>8

\* A written string has no control character, so it never ends its line.
THEOREM NoControlByte ==
    ASSUME NEW s \in Seq(Byte)
    PROVE  /\ dump_escaped(s) = <<Quote>> \o Escaped(s) \o <<Quote>>
           /\ dump_escaped(s) \in Seq(32 .. 255)
<1>1. (IF extra_space(s) = 0 THEN s ELSE Escaped(s)) = Escaped(s)
  BY EscapedFits
<1>2. dump_escaped(s) = <<Quote>> \o Escaped(s) \o <<Quote>>
  BY <1>1, Zenon DEF dump_escaped
<1> DEFINE q == <<Quote>>
           e == Escaped(s)
<1>3. q \in Seq(32 .. 255)
  BY DEF Quote
<1>4. e \in Seq(32 .. 255)
  <2>1. 0 \in Byte
    BY DEF Byte
  <2> QED
    BY <2>1, EscapedAppend
<1> HIDE DEF q, e
<1>5. q \o e \o q \in Seq(32 .. 255)
  BY <1>3, <1>4, ConcatThree
<1> QED
  BY <1>2, <1>5 DEF q, e

-----------------------------------------------------------------------------
(* Strings as they are read *)

\* get returns the byte in the text and EOF behind it.
LEMMA GetInText ==
    ASSUME NEW text \in Seq(Byte), NEW i \in Nat \ {0}
    PROVE  /\ get(text, i) # EOF <=> i <= Len(text)
           /\ i <= Len(text) => get(text, i) = text[i] /\ text[i] \in Byte
<1>1. Len(text) \in Nat
  BY LenProperties
<1>2. CASE i <= Len(text)
  <2>1. i \in 1 .. Len(text) /\ text[i] \in Byte
    BY <1>1, <1>2, ElementOfSeq
  <2>2. EOF \notin Byte
    BY DEF EOF, Byte
  <2> QED
    BY <1>2, <2>1, <2>2 DEF get
<1>3. CASE ~(i <= Len(text))
  <2>1. i \notin 1 .. Len(text)
    BY <1>1, <1>3
  <2> QED
    BY <1>3, <2>1 DEF get
<1> QED
  BY <1>2, <1>3

\* Four hexadecimal digits are within the text.
LEMMA CodepointInText ==
    ASSUME NEW text \in Seq(Byte), NEW i \in Nat \ {0}, get_codepoint(text, i) # -1
    PROVE  i + 3 <= Len(text)
<1> DEFINE digit == [k \in 0 .. 3 |-> Hex(get(text, i + k))]
<1>1. ~ \E k \in 0 .. 3 : digit[k] = -1
  <2>1. get_codepoint(text, i) = IF \E k \in 0 .. 3 : digit[k] = -1 THEN -1
                                 ELSE 4096 * digit[0] + 256 * digit[1] + 16 * digit[2] + digit[3]
    BY Zenon DEF get_codepoint
  <2> HIDE DEF digit
  <2> QED
    BY <2>1
<1>2. Hex(EOF) = -1
  BY DEF Hex, EOF, Digits
<1>3. get(text, i + 3) # EOF
  <2>1. 3 \in 0 .. 3 /\ digit[3] = Hex(get(text, i + 3))
    OBVIOUS
  <2> HIDE DEF digit
  <2> QED
    BY <1>1, <1>2, <2>1
<1>4. i + 3 \in Nat \ {0}
  OBVIOUS
<1> QED
  BY <1>3, <1>4, GetInText

\* A \u escape ends behind its digits, within the text.
LEMMA UnicodeGoesOn ==
    ASSUME NEW text \in Seq(Byte), NEW i \in Nat \ {0}, UnicodeEscape(text, i).ok
    PROVE  UnicodeEscape(text, i).next \in i + 4 .. Len(text) + 1
<1> DEFINE first == get_codepoint(text, i)
           second == IF get(text, i + 4) = Backslash /\ get(text, i + 5) = 117
                     THEN get_codepoint(text, i + 6) ELSE -1
           pair == Utf8(1024 * (first - 55296) + (second - 56320) + 65536)
           u == UnicodeEscape(text, i)
<1>1. u = CASE first \in High /\ second \in Low -> Piece(pair, i + 10)
            [] first \notin High \union Low \union {-1} -> Piece(Utf8(first), i + 4)
            [] OTHER -> NoPiece
  BY DEF UnicodeEscape
<1>2. -1 \notin High /\ -1 \notin Low
  BY DEF High, Low
<1>3. first # -1 => i + 4 \in i + 4 .. Len(text) + 1
  <2> SUFFICES ASSUME first # -1 PROVE i + 4 \in i + 4 .. Len(text) + 1
    OBVIOUS
  <2>1. i + 3 <= Len(text)
    BY CodepointInText
  <2>2. Len(text) \in Nat
    BY LenProperties
  <2> QED
    BY <2>1, <2>2
<1>4. second # -1 => i + 10 \in i + 4 .. Len(text) + 1
  <2> SUFFICES ASSUME second # -1 PROVE i + 10 \in i + 4 .. Len(text) + 1
    OBVIOUS
  <2>1. get_codepoint(text, i + 6) # -1 /\ i + 6 \in Nat \ {0}
    OBVIOUS
  <2>2. (i + 6) + 3 <= Len(text)
    BY <2>1, CodepointInText
  <2>3. Len(text) \in Nat
    BY LenProperties
  <2> QED
    BY <2>2, <2>3
<1>5. NoPiece.ok = FALSE /\ \A b, n : Piece(b, n).next = n
  BY DEF NoPiece, Piece
<1> HIDE DEF first, second, pair
<1>6. CASE first \in High /\ second \in Low
  BY <1>1, <1>2, <1>4, <1>5, <1>6
<1>7. CASE ~(first \in High /\ second \in Low) /\ first \notin High \union Low \union {-1}
  <2>1. u = Piece(Utf8(first), i + 4)
    <3> HIDE DEF u
    <3> QED
      BY <1>1, <1>7
  <2>2. first # -1
    BY <1>7
  <2> QED
    BY <1>3, <1>5, <2>1, <2>2
<1>8. CASE ~(first \in High /\ second \in Low) /\ first \in High \union Low \union {-1}
  <2>1. u = NoPiece
    <3> HIDE DEF u
    <3> QED
      BY <1>1, <1>8
  <2> QED
    BY <1>5, <2>1
<1> QED
  BY <1>6, <1>7, <1>8

\* An escape ends behind its letter, within the text.
LEMMA EscapeGoesOn ==
    ASSUME NEW text \in Seq(Byte), NEW i \in Nat \ {0}, Escape(text, i).ok
    PROVE  Escape(text, i).next \in i + 1 .. Len(text) + 1
<1> DEFINE letter == get(text, i)
<1>1. NoPiece.ok = FALSE /\ \A b, n : Piece(b, n).next = n
  BY DEF NoPiece, Piece
<1>2. Escape(text, i) = CASE Meant(letter) # -1 -> Piece(<<Meant(letter)>>, i + 1)
                          [] letter = 117 -> UnicodeEscape(text, i + 1)
                          [] OTHER -> NoPiece
  BY Zenon DEF Escape
<1>3. Len(text) \in Nat
  BY LenProperties
<1>4. Meant(EOF) = -1 /\ Meant(117) = -1
  BY DEF Meant, EOF, Quote, Backslash, Slash, LF, CR
<1> HIDE DEF letter
<1>5. CASE Meant(letter) # -1
  <2>1. letter # EOF
    BY <1>4, <1>5
  <2>2. i <= Len(text)
    BY <2>1, GetInText DEF letter
  <2>3. Escape(text, i) = Piece(<<Meant(letter)>>, i + 1)
    BY <1>2, <1>4, <1>5
  <2> QED
    BY <1>1, <1>3, <2>2, <2>3
<1>6. CASE Meant(letter) = -1 /\ letter = 117
  <2>1. Escape(text, i) = UnicodeEscape(text, i + 1)
    BY <1>2, <1>6
  <2>2. UnicodeEscape(text, i + 1).next \in (i + 1) + 4 .. Len(text) + 1
    BY <2>1, UnicodeGoesOn
  <2> QED
    BY <1>3, <2>1, <2>2
<1>7. CASE Meant(letter) = -1 /\ letter # 117
  <2>1. Escape(text, i) = NoPiece
    BY <1>2, <1>7
  <2> QED
    BY <1>1, <2>1
<1> QED
  BY <1>5, <1>6, <1>7

\* What may follow in a character: nothing behind a plain one, and never the
\* end of the text.
LEMMA FollowingNotEnd ==
    ASSUME NEW c \in Byte \union {EOF}
    PROVE  /\ Len(Following(c)) \in Nat
           /\ Len(Following(c)) = 0 => c # EOF
           /\ \A k \in 1 .. Len(Following(c)) : EOF \notin Following(c)[k]
<1> DEFINE tail == 128 .. 191
           F == Following(c)
<1> DEFINE Holds == /\ Len(F) \in Nat
                    /\ Len(F) = 0 => c # EOF
                    /\ \A k \in 1 .. Len(F) : EOF \notin F[k]
<1> SUFFICES Holds
  OBVIOUS
<1>1. \/ c \in Plain
      \/ c \in Control \union {EOF}
      \/ c \in 194 .. 223 \/ c = 224 \/ c \in (225 .. 239) \ {237} \/ c = 237
      \/ c = 240 \/ c \in 241 .. 243 \/ c = 244
      \/ /\ c \notin Plain /\ c \notin Control \union {EOF}
         /\ c \notin 194 .. 244
  BY DEF Byte
<1>2. /\ c \in Plain => F = <<>> /\ c # EOF
      /\ c \in Control \union {EOF} => F = <<{}>>
      /\ c \in 194 .. 223 => F = <<tail>>
      /\ c = 224 => F = <<160 .. 191, tail>>
      /\ c \in (225 .. 239) \ {237} => F = <<tail, tail>>
      /\ c = 237 => F = <<128 .. 159, tail>>
      /\ c = 240 => F = <<144 .. 191, tail, tail>>
      /\ c \in 241 .. 243 => F = <<tail, tail, tail>>
      /\ c = 244 => F = <<128 .. 143, tail, tail>>
      /\ (c \notin Plain /\ c \notin Control \union {EOF} /\ c \notin 194 .. 244) => F = <<{}>>
  <2>1. /\ c \in Plain => F = <<>> /\ c # EOF
        /\ c \in Control \union {EOF} => F = <<{}>>
    <3>1. c \in Plain => /\ c # EOF /\ c \notin Control \union {EOF} /\ c \notin 194 .. 244
                         /\ c \notin 194 .. 223 /\ c # 224 /\ c \notin (225 .. 239) \ {237}
                         /\ c # 237 /\ c # 240 /\ c \notin 241 .. 243 /\ c # 244
      BY DEF Plain, Control, EOF
    <3>2. c \in Control \union {EOF} => /\ c \notin Plain
                         /\ c \notin 194 .. 223 /\ c # 224 /\ c \notin (225 .. 239) \ {237}
                         /\ c # 237 /\ c # 240 /\ c \notin 241 .. 243 /\ c # 244
      BY DEF Plain, Control, EOF
    <3>3. CASE c \in Plain
      BY <3>1, <3>3, ZenonT(30) DEF Following
    <3>4. CASE c \in Control \union {EOF}
      BY <3>2, <3>4, ZenonT(30) DEF Following
    <3> QED
      BY <3>3, <3>4
  <2>2. c \in 194 .. 223 => F = <<tail>>
    BY DEF Following, Plain, Control, EOF, Quote, Backslash
  <2>3. c = 224 => F = <<160 .. 191, tail>>
    BY DEF Following, Plain, Control, EOF, Quote, Backslash
  <2>4. c \in (225 .. 239) \ {237} => F = <<tail, tail>>
    <3> SUFFICES ASSUME c \in (225 .. 239) \ {237} PROVE F = <<tail, tail>>
      OBVIOUS
    <3>1. /\ c \notin Plain /\ c \notin Control \union {EOF} /\ c \notin 194 .. 223 /\ c # 224
          /\ c # 237 /\ c # 240 /\ c \notin 241 .. 243 /\ c # 244
      BY DEF Plain, Control, EOF
    <3> QED
      BY <3>1 DEF Following
  <2>5. c = 237 => F = <<128 .. 159, tail>>
    BY DEF Following, Plain, Control, EOF, Quote, Backslash
  <2>6. c = 240 => F = <<144 .. 191, tail, tail>>
    BY DEF Following, Plain, Control, EOF, Quote, Backslash
  <2>7. c \in 241 .. 243 => F = <<tail, tail, tail>>
    BY DEF Following, Plain, Control, EOF, Quote, Backslash
  <2>8. c = 244 => F = <<128 .. 143, tail, tail>>
    BY DEF Following, Plain, Control, EOF, Quote, Backslash
  <2>9. (c \notin Plain /\ c \notin Control \union {EOF} /\ c \notin 194 .. 244) => F = <<{}>>
    BY DEF Following
  <2> QED
    BY <2>1, <2>2, <2>3, <2>4, <2>5, <2>6, <2>7, <2>8, <2>9
<1>3. EOF \notin tail /\ EOF \notin 160 .. 191 /\ EOF \notin 128 .. 159 /\ EOF \notin 144 .. 191
      /\ EOF \notin 128 .. 143
  BY DEF EOF
<1> DEFINE a == 160 .. 191
           b == 128 .. 159
           d == 144 .. 191
           e == 128 .. 143
<1> HIDE DEF F, tail, a, b, d, e
<1>4. \/ F = <<>> /\ c # EOF
      \/ F = <<{}>>
      \/ F = <<tail>>
      \/ F = <<a, tail>>
      \/ F = <<tail, tail>>
      \/ F = <<b, tail>>
      \/ F = <<d, tail, tail>>
      \/ F = <<tail, tail, tail>>
      \/ F = <<e, tail, tail>>
  BY <1>1, <1>2, Zenon DEF a, b, d, e
<1>5. /\ EOF \notin tail /\ EOF \notin a /\ EOF \notin b
      /\ EOF \notin d /\ EOF \notin e /\ EOF \notin {}
  BY <1>3, Zenon DEF a, b, d, e
<1>6. CASE F = <<>> /\ c # EOF
  BY <1>6
<1>7. ASSUME NEW x, F = <<x>>, EOF \notin x PROVE Holds
  BY <1>7
<1>8. ASSUME NEW x, NEW y, F = <<x, y>>, EOF \notin x, EOF \notin y PROVE Holds
  BY <1>8
<1>9. ASSUME NEW x, NEW y, NEW z, F = <<x, y, z>>, EOF \notin x, EOF \notin y, EOF \notin z
      PROVE  Holds
  BY <1>9
<1> HIDE DEF Holds
<1>10. Holds
  <2>1. CASE F = <<>> /\ c # EOF
    BY <1>6, <2>1 DEF Holds
  <2>2. CASE F = <<{}>> \/ F = <<tail>>
    BY <1>5, <1>7, <2>2
  <2>3. CASE F = <<a, tail>> \/ F = <<tail, tail>> \/ F = <<b, tail>>
    BY <1>5, <1>8, <2>3
  <2>4. CASE F = <<d, tail, tail>> \/ F = <<tail, tail, tail>> \/ F = <<e, tail, tail>>
    BY <1>5, <1>9, <2>4
  <2> QED
    BY <1>4, <2>1, <2>2, <2>3, <2>4
<1> QED
  BY <1>10

\* get returns a byte or EOF.
LEMMA GetIsByteOrEnd ==
    ASSUME NEW text \in Seq(Byte), NEW i \in Nat \ {0}
    PROVE  get(text, i) \in Byte \union {EOF}
<1>1. CASE i <= Len(text)
  BY <1>1, GetInText
<1>2. CASE ~(i <= Len(text))
  BY <1>2, GetInText
<1> QED
  BY <1>1, <1>2

\* Every round of scan_string goes on, and stays within the text: the loop
\* ends.
LEMMA PieceGoesOn ==
    ASSUME NEW text \in Seq(Byte), NEW i \in Nat \ {0}, PieceAt(text, i).ok
    PROVE  PieceAt(text, i).next \in i + 1 .. Len(text) + 1
<1>1. NoPiece.ok = FALSE /\ \A b, n : Piece(b, n).next = n
  BY DEF NoPiece, Piece
<1>2. Len(text) \in Nat
  BY LenProperties
<1>3. CASE get(text, i) = Backslash
  <2>1. PieceAt(text, i) = Escape(text, i + 1)
    BY <1>3 DEF PieceAt
  <2>2. Escape(text, i + 1).next \in (i + 1) + 1 .. Len(text) + 1
    BY <2>1, EscapeGoesOn
  <2> QED
    BY <1>2, <2>1, <2>2
<1>4. CASE get(text, i) # Backslash
  <2> DEFINE c == get(text, i)
             ranges == Following(c)
             n == Len(ranges)
             next == i + n + 1
  <2>1. PieceAt(text, i) = IF \A k \in 1 .. n : get(text, i + k) \in ranges[k]
                           THEN Piece(SubSeq(text, i, next - 1), next) ELSE NoPiece
    BY <1>4 DEF PieceAt, Character
  <2>2. c \in Byte \union {EOF}
    BY GetIsByteOrEnd
  <2>3. n \in Nat /\ (n = 0 => c # EOF) /\ \A k \in 1 .. n : EOF \notin ranges[k]
    BY <2>2, FollowingNotEnd
  <2> HIDE DEF n, ranges
  <2>4. (\A k \in 1 .. n : get(text, i + k) \in ranges[k]) /\ PieceAt(text, i).next = next
    <3> HIDE DEF next
    <3> QED
      BY <1>1, <2>1
  <2>5. i + n <= Len(text)
    <3>1. CASE n = 0
      BY <2>3, <3>1, GetInText
    <3>2. CASE n # 0
      <4>1. n \in 1 .. n /\ i + n \in Nat \ {0}
        BY <2>3, <3>2
      <4>2. get(text, i + n) # EOF
        BY <2>3, <2>4, <4>1
      <4> QED
        BY <4>1, <4>2, GetInText
    <3> QED
      BY <3>1, <3>2
  <2> QED
    BY <1>2, <2>3, <2>4, <2>5
<1> QED
  BY <1>3, <1>4

\* The rounds of the loop in scan_string, as an equation.
InFront(bytes, rest) ==
    IF rest.type = "parse_error" THEN ParseError
    ELSE Token("value_string", bytes \o rest.value, rest.next)
Round(text, f, i) ==
    IF get(text, i) = Quote THEN Token("value_string", <<>>, i + 1)
    ELSE IF PieceAt(text, i).ok
         THEN InFront(PieceAt(text, i).bytes, f[PieceAt(text, i).next])
         ELSE ParseError
Scans(f, text) == f = [i \in 1 .. Len(text) + 1 |-> Round(text, f, i)]

\* A round depends only on the rounds behind it.
LEMMA SameRound ==
    ASSUME NEW text \in Seq(Byte), NEW i \in Nat \ {0}, NEW f, NEW g,
           \A j \in i + 1 .. Len(text) + 1 : f[j] = g[j]
    PROVE  Round(text, f, i) = Round(text, g, i)
<1>1. CASE PieceAt(text, i).ok
  <2>1. f[PieceAt(text, i).next] = g[PieceAt(text, i).next]
    BY <1>1, PieceGoesOn
  <2> QED
    BY <2>1, Zenon DEF Round
<1>2. CASE ~PieceAt(text, i).ok
  BY <1>2, Zenon DEF Round
<1> QED
  BY <1>1, <1>2

\* The function of the rounds exists: it is built from the end of the text.
LEMMA ScanExists ==
    ASSUME NEW text \in Seq(Byte)
    PROVE  \E f : Scans(f, text)
<1> DEFINE N == Len(text) + 1
           Is(f, n) == /\ DOMAIN f = 1 .. N
                       /\ f = [i \in 1 .. N |-> f[i]]
                       /\ \A i \in 1 .. N : i > N - n => f[i] = Round(text, f, i)
           T == {n \in Nat : n <= N => \E f : Is(f, n)}
<1>1. N \in Nat
  BY LenProperties
<1>2. 0 \in T
  <2>1. Is([i \in 1 .. N |-> 0], 0)
    <3> HIDE DEF N
    <3>1. \A i \in 1 .. N : ~(i > N - 0)
      BY <1>1
    <3> QED
      BY <3>1
  <2> HIDE DEF Is
  <2> QED
    BY <2>1
<1>3. ASSUME NEW n \in Nat, n \in T PROVE n + 1 \in T
  <2> SUFFICES ASSUME n + 1 <= N PROVE \E g : Is(g, n + 1)
    OBVIOUS
  <2> HIDE DEF N
  <2>1. n <= N
    BY <1>1
  <2>2. PICK f : Is(f, n)
    BY <1>3, <2>1
  <2> DEFINE m == N - n
             g == [i \in 1 .. N |-> IF i = m THEN Round(text, f, m) ELSE f[i]]
  <2>3. m \in 1 .. N /\ m \in Nat \ {0}
    BY <1>1
  <2>4. /\ g[m] = Round(text, f, m) /\ DOMAIN g = 1 .. N /\ g = [i \in 1 .. N |-> g[i]]
        /\ \A i \in 1 .. N : i # m => g[i] = f[i]
    BY <2>3
  <2> HIDE DEF m, g
  <2>5. ASSUME NEW i \in 1 .. N, i >= m PROVE Round(text, g, i) = Round(text, f, i)
    <3>1. i \in Nat \ {0}
      OBVIOUS
    <3>2. \A j \in i + 1 .. Len(text) + 1 : g[j] = f[j]
      <4>1. \A j \in i + 1 .. N : j \in 1 .. N /\ j # m
        BY <1>1, <2>3, <2>5
      <4> QED
        BY <2>4, <4>1 DEF N
    <3> QED
      BY <3>1, <3>2, SameRound
  <2>6. ASSUME NEW i \in 1 .. N, i > N - (n + 1) PROVE g[i] = Round(text, g, i)
    <3>1. i >= m
      BY <1>1, <2>6 DEF m
    <3>2. CASE i = m
      BY <2>4, <2>5, <3>1, <3>2
    <3>3. CASE i # m
      <4>1. i > N - n
        BY <1>1, <2>3, <3>1, <3>3 DEF m
      <4>2. f[i] = Round(text, f, i)
        BY <2>2, <4>1
      <4> QED
        BY <2>4, <2>5, <3>1, <3>3, <4>2
    <3> QED
      BY <3>2, <3>3
  <2>7. Is(g, n + 1)
    BY <2>4, <2>6
  <2> HIDE DEF Is
  <2> QED
    BY <2>7
<1> HIDE DEF T
<1>4. N \in T
  <2> HIDE DEF N
  <2> QED
    BY <1>1, <1>2, <1>3, Induction
<1>5. PICK f : Is(f, N)
  <2> HIDE DEF N, Is
  <2> QED
    BY <1>1, <1>4 DEF T
<1>6. \A i \in 1 .. N : f[i] = Round(text, f, i)
  <2> HIDE DEF N
  <2>1. \A i \in 1 .. N : i > N - N
    BY <1>1
  <2> QED
    BY <1>5, <2>1
<1>7. f = [i \in 1 .. N |-> Round(text, f, i)]
  BY <1>5, <1>6, Zenon
<1> QED
  BY <1>7 DEF Scans

\* scan_string is its round at the place and the rest from the next one.
LEMMA ScanUnfolds ==
    ASSUME NEW text \in Seq(Byte), NEW i \in 1 .. Len(text) + 1
    PROVE  scan_string(text, i) =
               IF get(text, i) = Quote THEN Token("value_string", <<>>, i + 1)
               ELSE IF PieceAt(text, i).ok
                    THEN InFront(PieceAt(text, i).bytes, scan_string(text, PieceAt(text, i).next))
                    ELSE ParseError
<1> DEFINE h == CHOOSE f : Scans(f, text)
<1>1. Scans(h, text)
  BY ScanExists
<1>2. \A n : scan_string(text, n) = h[n]
  BY Zenon DEF scan_string, Scans, Round, InFront
<1> HIDE DEF h
<1>3. h[i] = Round(text, h, i)
  BY <1>1, Zenon DEF Scans
<1>4. h[PieceAt(text, i).next] = scan_string(text, PieceAt(text, i).next)
  BY <1>2, Zenon
<1>5. scan_string(text, i) = Round(text, h, i)
  BY <1>2, <1>3, Zenon
<1> HIDE DEF Token, ParseError, InFront
<1>6. Round(text, h, i) =
          IF get(text, i) = Quote THEN Token("value_string", <<>>, i + 1)
          ELSE IF PieceAt(text, i).ok
               THEN InFront(PieceAt(text, i).bytes, h[PieceAt(text, i).next]) ELSE ParseError
  BY Zenon DEF Round
<1>7. CASE PieceAt(text, i).ok
  BY <1>4, <1>5, <1>6, <1>7
<1>8. CASE ~PieceAt(text, i).ok
  BY <1>5, <1>6, <1>8
<1> QED
  BY <1>7, <1>8

\* The characters: the UTF-8 of every code point that is no surrogate.
CodePoints == {n \in Nat : n <= 1114111 /\ n \notin High \union Low}
Characters == {Utf8(cp) : cp \in CodePoints}

\* The bytes c[2] ... are what must follow c[1].
Follows(c) ==
    /\ c \in Seq(128 .. 255) /\ c # <<>>
    /\ Len(c) = Len(Following(c[1])) + 1
    /\ \A k \in 1 .. Len(Following(c[1])) : c[k + 1] \in Following(c[1])[k]

\* What Utf8 makes of two bytes passes the check of scan_string.
LEMMA TwoFollow ==
    ASSUME NEW a \in 194 .. 223, NEW b \in 128 .. 191
    PROVE  Follows(<<a, b>>)
<1>1. Following(a) = <<128 .. 191>>
  <2>1. /\ a \notin Plain /\ a \notin Control \union {EOF} /\ a # 224
        /\ a \notin (225 .. 239) \ {237} /\ a # 237 /\ a # 240 /\ a \notin 241 .. 243 /\ a # 244
    BY DEF Plain, Control, EOF
  <2> QED
    BY <2>1 DEF Following
<1> DEFINE tail == 128 .. 191
           F == Following(a)
           c == <<a, b>>
<1>2. c \in Seq(128 .. 255) /\ c # <<>> /\ Len(c) = 2 /\ c[1] = a /\ c[2] = b
  OBVIOUS
<1>3. F = <<tail>> /\ b \in tail
  BY <1>1
<1> HIDE DEF tail, F, c
<1>4. Len(F) = 1 /\ F[1] = tail
  BY <1>3
<1>5. \A k \in 1 .. Len(F) : c[k + 1] \in F[k]
  <2>1. \A k \in 1 .. Len(F) : k = 1 /\ k + 1 = 2
    BY <1>4
  <2> QED
    BY <1>2, <1>3, <1>4, <2>1
<1>6. Len(c) = Len(F) + 1
  BY <1>2, <1>4
<1>7. Following(c[1]) = F
  BY <1>2 DEF F
<1>8. Follows(c)
  BY <1>2, <1>5, <1>6, <1>7, Zenon DEF Follows
<1> QED
  BY <1>8 DEF c

\* Three bytes: neither overlong nor a surrogate.
LEMMA ThreeFollow ==
    ASSUME NEW a, NEW b \in 128 .. 191, NEW d \in 128 .. 191,
           \/ a = 224 /\ b \in 160 .. 191
           \/ a \in (225 .. 239) \ {237}
           \/ a = 237 /\ b \in 128 .. 159
    PROVE  Follows(<<a, b, d>>)
<1> DEFINE tail == 128 .. 191
           F == Following(a)
           c == <<a, b, d>>
<1>1. PICK x : F = <<x, tail>> /\ b \in x
  <2>1. CASE a = 224 /\ b \in 160 .. 191
    <3>1. /\ a \notin Plain /\ a \notin Control \union {EOF} /\ a \notin 194 .. 223
          /\ a \notin (225 .. 239) \ {237} /\ a # 237 /\ a # 240 /\ a \notin 241 .. 243 /\ a # 244
      BY <2>1 DEF Plain, Control, EOF
    <3>2. F = <<160 .. 191, tail>>
      BY <2>1, <3>1 DEF Following
    <3> QED
      BY <2>1, <3>2
  <2>2. CASE a \in (225 .. 239) \ {237}
    <3>1. /\ a \notin Plain /\ a \notin Control \union {EOF} /\ a \notin 194 .. 223
          /\ a # 224 /\ a # 237 /\ a # 240 /\ a \notin 241 .. 243 /\ a # 244
      BY <2>2 DEF Plain, Control, EOF
    <3>2. F = <<tail, tail>>
      BY <2>2, <3>1 DEF Following
    <3> QED
      BY <3>2
  <2>3. CASE a = 237 /\ b \in 128 .. 159
    <3>1. /\ a \notin Plain /\ a \notin Control \union {EOF} /\ a \notin 194 .. 223
          /\ a # 224 /\ a \notin (225 .. 239) \ {237} /\ a # 240 /\ a \notin 241 .. 243 /\ a # 244
      BY <2>3 DEF Plain, Control, EOF
    <3>2. F = <<128 .. 159, tail>>
      BY <2>3, <3>1 DEF Following
    <3> QED
      BY <2>3, <3>2
  <2> QED
    BY <2>1, <2>2, <2>3
<1>2. a \in 128 .. 255
  OBVIOUS
<1>3. c \in Seq(128 .. 255) /\ c # <<>> /\ Len(c) = 3 /\ c[1] = a /\ c[2] = b /\ c[3] = d
  BY <1>2
<1>4. d \in tail
  OBVIOUS
<1> HIDE DEF tail, F, c
<1>5. Len(F) = 2 /\ F[1] = x /\ F[2] = tail
  BY <1>1
<1>6. \A k \in 1 .. Len(F) : c[k + 1] \in F[k]
  <2>1. \A k \in 1 .. Len(F) : (k = 1 /\ k + 1 = 2) \/ (k = 2 /\ k + 1 = 3)
    BY <1>5
  <2> QED
    BY <1>1, <1>3, <1>4, <1>5, <2>1
<1>7. Len(c) = Len(F) + 1
  BY <1>3, <1>5
<1>8. Following(c[1]) = F
  BY <1>3 DEF F
<1>9. Follows(c)
  BY <1>3, <1>6, <1>7, <1>8, Zenon DEF Follows
<1> QED
  BY <1>9 DEF c

\* Four bytes: neither overlong nor above U+10FFFF.
LEMMA FourFollow ==
    ASSUME NEW a, NEW b \in 128 .. 191, NEW d \in 128 .. 191, NEW e \in 128 .. 191,
           \/ a = 240 /\ b \in 144 .. 191
           \/ a \in 241 .. 243
           \/ a = 244 /\ b \in 128 .. 143
    PROVE  Follows(<<a, b, d, e>>)
<1> DEFINE tail == 128 .. 191
           F == Following(a)
           c == <<a, b, d, e>>
<1>1. PICK x : F = <<x, tail, tail>> /\ b \in x
  <2>1. CASE a = 240 /\ b \in 144 .. 191
    <3>1. /\ a \notin Plain /\ a \notin Control \union {EOF} /\ a \notin 194 .. 223
          /\ a # 224 /\ a \notin (225 .. 239) \ {237} /\ a # 237 /\ a \notin 241 .. 243 /\ a # 244
      BY <2>1 DEF Plain, Control, EOF
    <3>2. F = <<144 .. 191, tail, tail>>
      BY <2>1, <3>1 DEF Following
    <3> QED
      BY <2>1, <3>2
  <2>2. CASE a \in 241 .. 243
    <3>1. /\ a \notin Plain /\ a \notin Control \union {EOF} /\ a \notin 194 .. 223
          /\ a # 224 /\ a \notin (225 .. 239) \ {237} /\ a # 237 /\ a # 240 /\ a # 244
      BY <2>2 DEF Plain, Control, EOF
    <3>2. F = <<tail, tail, tail>>
      BY <2>2, <3>1 DEF Following
    <3> QED
      BY <3>2
  <2>3. CASE a = 244 /\ b \in 128 .. 143
    <3>1. /\ a \notin Plain /\ a \notin Control \union {EOF} /\ a \notin 194 .. 223
          /\ a # 224 /\ a \notin (225 .. 239) \ {237} /\ a # 237 /\ a # 240 /\ a \notin 241 .. 243
      BY <2>3 DEF Plain, Control, EOF
    <3>2. F = <<128 .. 143, tail, tail>>
      BY <2>3, <3>1 DEF Following
    <3> QED
      BY <2>3, <3>2
  <2> QED
    BY <2>1, <2>2, <2>3
<1>2. a \in 128 .. 255
  OBVIOUS
<1>3. /\ c \in Seq(128 .. 255) /\ c # <<>> /\ Len(c) = 4
      /\ c[1] = a /\ c[2] = b /\ c[3] = d /\ c[4] = e
  BY <1>2
<1>4. d \in tail /\ e \in tail
  OBVIOUS
<1> HIDE DEF tail, F, c
<1>5. Len(F) = 3 /\ F[1] = x /\ F[2] = tail /\ F[3] = tail
  BY <1>1
<1>6. \A k \in 1 .. Len(F) : c[k + 1] \in F[k]
  <2>1. \A k \in 1 .. Len(F) : (k = 1 /\ k + 1 = 2) \/ (k = 2 /\ k + 1 = 3) \/ (k = 3 /\ k + 1 = 4)
    BY <1>5
  <2> QED
    BY <1>1, <1>3, <1>4, <1>5, <2>1
<1>7. Len(c) = Len(F) + 1
  BY <1>3, <1>5
<1>8. Following(c[1]) = F
  BY <1>3 DEF F
<1>9. Follows(c)
  BY <1>3, <1>6, <1>7, <1>8, Zenon DEF Follows
<1> QED
  BY <1>9 DEF c

\* The UTF-8 of a code point is itself or bytes that pass the check.
LEMMA Utf8Shape ==
    ASSUME NEW cp \in CodePoints
    PROVE  /\ cp < 128 => Utf8(cp) = <<cp>>
           /\ cp >= 128 => Follows(Utf8(cp))
<1> DEFINE t == 128 + (cp % 64)
           t2 == 128 + ((cp \div 64) % 64)
           t3 == 128 + ((cp \div 4096) % 64)
<1>0. cp \in Nat /\ cp <= 1114111 /\ (cp < 55296 \/ cp > 57343)
  BY SMTT(20) DEF CodePoints, High, Low
<1>1. t \in 128 .. 191 /\ t2 \in 128 .. 191 /\ t3 \in 128 .. 191
  <2>1. \A n \in Nat : 128 + (n % 64) \in 128 .. 191
    BY SMTT(20)
  <2>2. cp \div 64 \in Nat /\ cp \div 4096 \in Nat
    BY <1>0, SMTT(20)
  <2> QED
    BY <1>0, <2>1, <2>2, SMTT(20)
<1> DEFINE continued(n) == 128 + ((cp \div n) % 64)
<1>2. continued(1) = t /\ continued(64) = t2 /\ continued(4096) = t3
  <2>1. cp \div 1 = cp
    BY <1>0, SMTT(20)
  <2> QED
    BY <2>1, SMTT(20)
<1> DEFINE a2 == 192 + cp \div 64
           a3 == 224 + cp \div 4096
           a4 == 240 + cp \div 262144
<1>7. Utf8(cp) = CASE cp < 128 -> <<cp>>
                   [] cp >= 128 /\ cp < 2048 -> <<a2, continued(1)>>
                   [] cp >= 2048 /\ cp < 65536 -> <<a3, continued(64), continued(1)>>
                   [] OTHER -> <<a4, continued(4096), continued(64), continued(1)>>
  BY SMTT(20) DEF Utf8
<1> HIDE DEF continued
<1>3. CASE cp < 128
  BY <1>0, <1>3, <1>7, SMTT(20)
<1>4. CASE cp >= 128 /\ cp < 2048
  <2>1. Utf8(cp) = <<a2, t>>
    <3> HIDE DEF a2, t, t2, t3
    <3> QED
      BY <1>0, <1>2, <1>4, <1>7, SMTT(20)
  <2>2. a2 \in 194 .. 223
    BY <1>0, <1>4, SMTT(20)
  <2> HIDE DEF a2, t
  <2> QED
    <3>1. Follows(<<a2, t>>)
      <4>1. \A a \in 194 .. 223 : \A b \in 128 .. 191 : Follows(<<a, b>>)
        BY TwoFollow
      <4>2. t \in 128 .. 191
        BY <1>1
      <4> QED
        BY <2>2, <4>1, <4>2
    <3> QED
      BY <1>0, <1>4, <2>1, <3>1, SMTT(20)
<1>5. CASE cp >= 2048 /\ cp < 65536
  <2>1. Utf8(cp) = <<a3, t2, t>>
    <3> HIDE DEF a3, t, t2, t3
    <3> QED
      BY <1>0, <1>2, <1>5, <1>7, SMTT(20)
  <2>2. \/ a3 = 224 /\ t2 \in 160 .. 191
        \/ a3 \in (225 .. 239) \ {237}
        \/ a3 = 237 /\ t2 \in 128 .. 159
    <3>1. a3 \in 224 .. 239
      BY <1>0, <1>5, SMTT(20)
    <3>2. a3 = 224 => t2 \in 160 .. 191
      <4> SUFFICES ASSUME a3 = 224 PROVE t2 \in 160 .. 191
        BY SMTT(20)
      <4>1. cp >= 2048 /\ cp < 4096
        BY <1>0, <1>5, SMTT(20)
      <4>2. cp \div 64 \in 32 .. 63
        BY <1>0, <4>1, SMTT(20)
      <4> QED
        BY <4>2, SMTT(20)
    <3>3. a3 = 237 => t2 \in 128 .. 159
      <4> SUFFICES ASSUME a3 = 237 PROVE t2 \in 128 .. 159
        BY SMTT(20)
      <4>1. cp >= 53248 /\ cp < 55296
        BY <1>0, <1>5, SMTT(20)
      <4>2. cp \div 64 \in 832 .. 863
        BY <1>0, <4>1, SMTT(20)
      <4> QED
        BY <4>2, SMTT(20)
    <3> HIDE DEF a3
    <3> QED
      BY <3>1, <3>2, <3>3, SMTT(20)
  <2> HIDE DEF a3, t, t2
  <2> QED
    <3>1. Follows(<<a3, t2, t>>)
      <4>1. \A a : \A b \in 128 .. 191 : \A d \in 128 .. 191 :
                \/ a = 224 /\ b \in 160 .. 191
                \/ a \in (225 .. 239) \ {237}
                \/ a = 237 /\ b \in 128 .. 159
                => Follows(<<a, b, d>>)
        BY ThreeFollow
      <4>2. t \in 128 .. 191 /\ t2 \in 128 .. 191
        BY <1>1
      <4> QED
        BY <2>2, <4>1, <4>2
    <3> QED
      BY <1>0, <1>5, <2>1, <3>1, SMTT(20)
<1>6. CASE cp > 65535
  <2>1. Utf8(cp) = <<a4, t3, t2, t>>
    <3> HIDE DEF a4, t, t2, t3
    <3> QED
      BY <1>0, <1>2, <1>6, <1>7, SMTT(20)
  <2>2. \/ a4 = 240 /\ t3 \in 144 .. 191
        \/ a4 \in 241 .. 243
        \/ a4 = 244 /\ t3 \in 128 .. 143
    <3>1. a4 \in 240 .. 244
      BY <1>0, <1>6, SMTT(20)
    <3>2. a4 = 240 => t3 \in 144 .. 191
      <4> SUFFICES ASSUME a4 = 240 PROVE t3 \in 144 .. 191
        BY SMTT(20)
      <4>1. cp >= 65536 /\ cp < 262144
        BY <1>0, <1>6, SMTT(20)
      <4>2. cp \div 4096 \in 16 .. 63
        BY <1>0, <4>1, SMTT(20)
      <4> QED
        BY <4>2, SMTT(20)
    <3>3. a4 = 244 => t3 \in 128 .. 143
      <4> SUFFICES ASSUME a4 = 244 PROVE t3 \in 128 .. 143
        BY SMTT(20)
      <4>1. cp >= 1048576 /\ cp <= 1114111
        BY <1>0, <1>6, SMTT(20)
      <4>2. cp \div 4096 \in 256 .. 271
        BY <1>0, <4>1, SMTT(20)
      <4> QED
        BY <4>2, SMTT(20)
    <3> HIDE DEF a4
    <3> QED
      BY <3>1, <3>2, <3>3, SMTT(20)
  <2> HIDE DEF a4, t, t2, t3
  <2> QED
    <3>1. Follows(<<a4, t3, t2, t>>)
      BY <1>1, <2>2, FourFollow, Zenon
    <3> QED
      BY <1>0, <1>6, <2>1, <3>1, SMTT(20)
<1> QED
  BY <1>0, <1>3, <1>4, <1>5, <1>6, SMTT(20)


\* Bytes above 127 are copied as they are.
LEMMA EscapedHigh ==
    ASSUME NEW s \in Seq(128 .. 255)
    PROVE  Escaped(s) = s
<1> DEFINE H == 128 .. 255
           T == {n \in Nat : \A u \in Seq(H) : Len(u) = n => Escaped(u) = u}
<1>1. 0 \in T
  <2> SUFFICES ASSUME NEW u \in Seq(H), Len(u) = 0 PROVE Escaped(u) = u
    OBVIOUS
  <2>1. u = <<>>
    BY EmptySeq
  <2> QED
    BY <2>1, EscapedEmpty
<1>2. ASSUME NEW n \in Nat, n \in T PROVE n + 1 \in T
  <2> SUFFICES ASSUME NEW u \in Seq(H), Len(u) = n + 1 PROVE Escaped(u) = u
    OBVIOUS
  <2>1. u # <<>>
    BY EmptySeq
  <2>2. PICK f \in Seq(H), b \in H : u = Append(f, b)
    BY <2>1, SequenceEmptyOrAppend, ZenonT(40)
  <2>3. Len(f) = n
    <3>1. Len(u) = Len(f) + 1 /\ Len(f) \in Nat
      BY <2>2, AppendProperties, LenProperties
    <3> QED
      BY <3>1
  <2>4. Escaped(f) = f
    BY <1>2, <2>3
  <2>5. H \subseteq Byte /\ b \in Byte /\ f \in Seq(Byte)
    <3>1. H \subseteq Byte
      BY DEF Byte
    <3> QED
      BY <3>1, SeqMonotone, ZenonT(40)
  <2>6. EscapeByte(b) = <<b>>
    <3>1. b \notin {8, 12, LF, CR, 9, Quote, Backslash} /\ b \notin Control
      BY DEF Control, LF, CR, Quote, Backslash
    <3>2. Letter(b) = -1
      BY <3>1, Zenon DEF Letter
    <3> QED
      BY <2>5, <3>1, <3>2, EscapeByteIsBytes
  <2>7. Escaped(u) = f \o <<b>>
    BY <2>2, <2>4, <2>5, <2>6, EscapedAppend
  <2> HIDE DEF H
  <2> QED
    BY <2>2, <2>7, AppendIsConcat
<1> HIDE DEF T
<1>3. Len(s) \in T
  BY <1>1, <1>2, Induction, LenProperties
<1> QED
  BY <1>3 DEF T

\* The letter that dump_escaped writes for a byte means that byte.
LEMMA LetterIsMeant ==
    ASSUME NEW b \in Byte, Letter(b) # -1
    PROVE  Meant(Letter(b)) = b
<1>1. \/ b = 8 /\ Letter(b) = 98
      \/ b = 12 /\ Letter(b) = 102
      \/ b = 10 /\ Letter(b) = 110
      \/ b = 13 /\ Letter(b) = 114
      \/ b = 9 /\ Letter(b) = 116
      \/ b = 34 /\ Letter(b) = 34
      \/ b = 92 /\ Letter(b) = 92
  BY DEF Letter, LF, CR, Quote, Backslash
<1>2. /\ Meant(98) = 8 /\ Meant(102) = 12 /\ Meant(110) = 10 /\ Meant(114) = 13
      /\ Meant(116) = 9 /\ Meant(34) = 34 /\ Meant(92) = 92
  BY DEF Meant, LF, CR, Quote, Backslash, Slash
<1> QED
  BY <1>1, <1>2

\* What dump_escaped writes for one character is one round of scan_string.
ReadAs(line, c, i) ==
    /\ get(line, i) # Quote
    /\ PieceAt(line, i) = Piece(c, i + Len(Escaped(c)))

\* A byte written with a letter is read as one round.
LEMMA LetterRead ==
    ASSUME NEW line \in Seq(Byte), NEW i, NEW b \in Byte, Letter(b) # -1,
           At(line, Escaped(<<b>>), i)
    PROVE  ReadAs(line, <<b>>, i)
<1>1. Escaped(<<b>>) = <<Backslash, Letter(b)>>
  BY EscapedByte, EscapeByteIsBytes
<1> HIDE DEF Letter
<1>2. /\ i \in Nat \ {0} /\ i + 1 <= Len(line) /\ Len(line) \in Nat
      /\ line[i] = Backslash /\ line[i + 1] = Letter(b) /\ Len(Escaped(<<b>>)) = 2
  <2>1. Len(Escaped(<<b>>)) = 2 /\ Escaped(<<b>>)[1] = Backslash /\ Escaped(<<b>>)[2] = Letter(b)
    BY <1>1
  <2> DEFINE e == Escaped(<<b>>)
  <2>2. /\ i \in Nat \ {0} /\ i + Len(e) <= Len(line) + 1
        /\ \A j \in 1 .. Len(e) : line[i + j - 1] = e[j]
    BY DEF At
  <2> HIDE DEF e
  <2>3. Len(e) = 2 /\ e[1] = Backslash /\ e[2] = Letter(b)
    BY <2>1 DEF e
  <2>4. i + 1 - 1 = i /\ i + 2 - 1 = i + 1 /\ 1 \in 1 .. 2 /\ 2 \in 1 .. 2
    BY <2>2
  <2>5. line[i] = Backslash /\ line[i + 1] = Letter(b)
    BY <2>2, <2>3, <2>4
  <2>6. Len(line) \in Nat
    BY LenProperties
  <2> QED
    BY <2>2, <2>3, <2>5, <2>6 DEF e
<1>3. get(line, i) = Backslash /\ get(line, i + 1) = Letter(b)
  BY <1>2 DEF get
<1>4. PieceAt(line, i) = Escape(line, i + 1)
  BY <1>3 DEF PieceAt
<1>5. Meant(Letter(b)) = b /\ b # -1
  <2>1. b # -1
    BY DEF Byte
  <2> QED
    BY <2>1, LetterIsMeant
<1>6. Escape(line, i + 1) = Piece(<<b>>, (i + 1) + 1)
  <2> DEFINE letter == get(line, i + 1)
  <2>1. Escape(line, i + 1) = CASE Meant(letter) # -1 -> Piece(<<Meant(letter)>>, (i + 1) + 1)
                                [] letter = 117 -> UnicodeEscape(line, (i + 1) + 1)
                                [] OTHER -> NoPiece
    BY Zenon DEF Escape
  <2>2. Meant(letter) = b
    BY <1>3, <1>5, Zenon
  <2>3. Meant(117) = -1
    BY DEF Meant, LF, CR, Quote, Backslash, Slash
  <2> HIDE DEF letter
  <2>4. letter # 117
    BY <1>5, <2>2, <2>3
  <2> QED
    BY <1>5, <2>1, <2>2, <2>4
<1>7. PieceAt(line, i) = Piece(<<b>>, i + Len(Escaped(<<b>>)))
  <2>1. (i + 1) + 1 = i + 2
    BY <1>2
  <2> QED
    BY <1>2, <1>4, <1>6, <2>1, Zenon
<1>8. Backslash # Quote
  BY DEF Backslash, Quote
<1> QED
  BY <1>3, <1>7, <1>8, Zenon DEF ReadAs

\* A control character written as \u00xx is read as one round.
LEMMA CodeRead ==
    ASSUME NEW line \in Seq(Byte), NEW i, NEW b \in Control, Letter(b) = -1,
           At(line, Escaped(<<b>>), i)
    PROVE  ReadAs(line, <<b>>, i)
<1> DEFINE hex(n) == IF n < 10 THEN 48 + n ELSE 87 + n
           e == Escaped(<<b>>)
           h == hex(b \div 16)
           l == hex(b % 16)
<1>1. b \in 0 .. 31 /\ b \in Byte /\ b \div 16 \in 0 .. 15 /\ b % 16 \in 0 .. 15
      /\ 16 * (b \div 16) + (b % 16) = b
  BY DEF Control, Byte
<1>2. e = <<Backslash, 117, 48, 48, h, l>>
  <2>1. EscapeByte(b) = <<Backslash, 117, 48, 48, h, l>>
    BY Zenon DEF EscapeByte
  <2> HIDE DEF h, l
  <2> QED
    BY <1>1, <2>1, EscapedByte
<1>3. \A n \in 0 .. 15 : Hex(hex(n)) = n
  <2> SUFFICES ASSUME NEW n \in 0 .. 15 PROVE Hex(hex(n)) = n
    OBVIOUS
  <2>1. CASE n < 10
    <3>1. hex(n) = 48 + n /\ 48 + n \in Digits /\ (48 + n) - 48 = n
          /\ 48 + n \notin 65 .. 70 /\ 48 + n \notin 97 .. 102
      BY <2>1 DEF Digits
    <3> HIDE DEF hex
    <3> QED
      BY <3>1 DEF Hex
  <2>2. CASE ~(n < 10)
    <3>1. hex(n) = 87 + n /\ 87 + n \in 97 .. 102 /\ (87 + n) - 87 = n
          /\ 87 + n \notin 65 .. 70 /\ 87 + n \notin Digits
      BY <2>2 DEF Digits
    <3> HIDE DEF hex
    <3> QED
      BY <3>1 DEF Hex
  <2> QED
    BY <2>1, <2>2
<1>4. Hex(h) = b \div 16 /\ Hex(l) = b % 16 /\ Hex(48) = 0
  <2>1. Hex(48) = 0
    BY DEF Hex, Digits
  <2> HIDE DEF hex
  <2> QED
    BY <1>1, <1>3, <2>1
<1> HIDE DEF h, l, hex
<1>5. Len(e) = 6 /\ e[1] = Backslash /\ e[2] = 117 /\ e[3] = 48 /\ e[4] = 48 /\ e[5] = h /\ e[6] = l
  BY <1>2
<1>6. /\ i \in Nat \ {0} /\ i + Len(e) <= Len(line) + 1 /\ Len(line) \in Nat
      /\ \A j \in 1 .. Len(e) : line[i + j - 1] = e[j]
  BY LenProperties DEF At
<1> HIDE DEF e
<1>7. ASSUME NEW j \in 1 .. 6 PROVE get(line, i + (j - 1)) = e[j]
  <2>1. i + (j - 1) \in 1 .. Len(line) /\ i + (j - 1) = i + j - 1
    BY <1>5, <1>6, SMTT(30)
  <2>2. line[i + j - 1] = e[j]
    BY <1>5, <1>6
  <2> QED
    BY <2>1, <2>2 DEF get
<1>8. /\ get(line, i) = Backslash /\ get(line, i + 1) = 117
      /\ get(line, (i + 2) + 0) = 48 /\ get(line, (i + 2) + 1) = 48
      /\ get(line, (i + 2) + 2) = h /\ get(line, (i + 2) + 3) = l
  <2>1. /\ i + (1 - 1) = i /\ i + (2 - 1) = i + 1 /\ i + (3 - 1) = (i + 2) + 0
        /\ i + (4 - 1) = (i + 2) + 1 /\ i + (5 - 1) = (i + 2) + 2 /\ i + (6 - 1) = (i + 2) + 3
    <3>1. i \in Nat
      BY <1>6
    <3> QED
      BY <3>1
  <2>2. 1 \in 1 .. 6 /\ 2 \in 1 .. 6 /\ 3 \in 1 .. 6 /\ 4 \in 1 .. 6 /\ 5 \in 1 .. 6 /\ 6 \in 1 .. 6
    OBVIOUS
  <2>3. /\ get(line, i + (1 - 1)) = e[1] /\ get(line, i + (2 - 1)) = e[2]
        /\ get(line, i + (3 - 1)) = e[3] /\ get(line, i + (4 - 1)) = e[4]
        /\ get(line, i + (5 - 1)) = e[5] /\ get(line, i + (6 - 1)) = e[6]
    BY <1>7, <2>2
  <2> HIDE DEF get
  <2> QED
    BY <1>5, <2>1, <2>3, Zenon
<1>9. get_codepoint(line, i + 2) = b
  <2> DEFINE digit == [k \in 0 .. 3 |-> Hex(get(line, (i + 2) + k))]
  <2>1. get_codepoint(line, i + 2) =
            IF \E k \in 0 .. 3 : digit[k] = -1 THEN -1
            ELSE 4096 * digit[0] + 256 * digit[1] + 16 * digit[2] + digit[3]
    BY Zenon DEF get_codepoint
  <2>2. digit[0] = 0 /\ digit[1] = 0 /\ digit[2] = b \div 16 /\ digit[3] = b % 16
    BY <1>4, <1>8
  <2> HIDE DEF digit
  <2>3. \A k \in 0 .. 3 : digit[k] # -1
    BY <1>1, <2>2
  <2> QED
    BY <1>1, <2>1, <2>2, <2>3
<1>10. UnicodeEscape(line, i + 2) = Piece(<<b>>, (i + 2) + 4)
  <2>1. b \notin High \union Low \union {-1} /\ b \notin High
    BY <1>1, SMTT(30) DEF High, Low
  <2>2. UnicodeEscape(line, i + 2) = Piece(Utf8(b), (i + 2) + 4)
    <3> DEFINE first == get_codepoint(line, i + 2)
               second == IF get(line, (i + 2) + 4) = Backslash /\ get(line, (i + 2) + 5) = 117
                         THEN get_codepoint(line, (i + 2) + 6) ELSE -1
               pair == Utf8(1024 * (first - 55296) + (second - 56320) + 65536)
    <3>1. UnicodeEscape(line, i + 2) =
              CASE first \in High /\ second \in Low -> Piece(pair, (i + 2) + 10)
                [] first \notin High \union Low \union {-1} -> Piece(Utf8(first), (i + 2) + 4)
                [] OTHER -> NoPiece
      BY DEF UnicodeEscape
    <3>2. first = b
      BY <1>9
    <3> HIDE DEF first, second, pair
    <3> QED
      BY <2>1, <3>1, <3>2
  <2>3. b \in CodePoints
    BY <1>1, <2>1 DEF CodePoints
  <2>4. b < 128
    BY <1>1
  <2> QED
    BY <2>2, <2>3, <2>4, Utf8Shape
<1>11. PieceAt(line, i) = Escape(line, i + 1)
  BY <1>8 DEF PieceAt
<1>12. Escape(line, i + 1) = UnicodeEscape(line, (i + 1) + 1)
  <2>1. Meant(117) = -1
    BY DEF Meant, LF, CR, Quote, Backslash, Slash
  <2> QED
    BY <1>8, <2>1, Zenon DEF Escape
<1>13. (i + 1) + 1 = i + 2 /\ (i + 2) + 4 = i + 6
  BY <1>6
<1>14. PieceAt(line, i) = Piece(<<b>>, i + Len(e))
  BY <1>5, <1>10, <1>11, <1>12, <1>13, Zenon
<1>15. Backslash # Quote
  BY DEF Backslash, Quote
<1> QED
  BY <1>8, <1>14, <1>15, Zenon DEF ReadAs, e

\* A character that is copied is read as one round.
LEMMA PlainRead ==
    ASSUME NEW line \in Seq(Byte), NEW i, NEW c, At(line, c, i), Escaped(c) = c,
           Follows(c) \/ \E b \in Plain : c = <<b>>
    PROVE  ReadAs(line, c, i)
<1> DEFINE ranges == Following(c[1])
           n == Len(ranges)
<1>1. /\ c \in Seq(Byte) /\ c # <<>> /\ c[1] \notin {Quote, Backslash}
      /\ Len(c) = n + 1 /\ n \in Nat
      /\ \A k \in 1 .. n : c[k + 1] \in ranges[k]
  <2>1. CASE Follows(c)
    <3>1. /\ c \in Seq(128 .. 255) /\ c # <<>> /\ Len(c) = n + 1
          /\ \A k \in 1 .. n : c[k + 1] \in ranges[k]
      BY <2>1, Zenon DEF Follows
    <3>2. 128 .. 255 \subseteq Byte
      BY DEF Byte
    <3>3. c[1] \in 128 .. 255 /\ c \in Seq(Byte)
      <4>1. Len(c) \in Nat \ {0}
        BY <3>1, EmptySeq, LenProperties
      <4>2. 1 \in 1 .. Len(c)
        BY <4>1
      <4>3. c \in Seq(Byte)
        BY <3>1, <3>2, SeqMonotone, ZenonT(40)
      <4>4. c[1] \in 128 .. 255
        BY <3>1, <4>2, ElementOfSeq, ZenonT(40)
      <4> QED
        BY <4>3, <4>4
    <3>4. n \in Nat
      <4>1. c[1] \in Byte \union {EOF}
        BY <3>2, <3>3
      <4> QED
        BY <4>1, FollowingNotEnd
    <3> HIDE DEF n, ranges
    <3>5. c[1] \notin {Quote, Backslash}
      <4> DEFINE d == c[1]
      <4>1. d \in 128 .. 255
        BY <3>3
      <4> HIDE DEF d
      <4>2. d \notin {Quote, Backslash}
        BY <4>1 DEF Quote, Backslash
      <4> QED
        BY <4>2 DEF d
    <3> QED
      BY <3>1, <3>3, <3>4, <3>5
  <2>2. CASE \E b \in Plain : c = <<b>>
    <3>1. PICK b \in Plain : c = <<b>>
      BY <2>2
    <3>2. b \in Byte /\ b \notin {Quote, Backslash}
      BY DEF Plain, Byte
    <3>3. Following(b) = <<>>
      <4>1. /\ b \notin Control \union {EOF} /\ b \notin 194 .. 223 /\ b # 224
            /\ b \notin (225 .. 239) \ {237} /\ b # 237 /\ b # 240 /\ b \notin 241 .. 243 /\ b # 244
        BY DEF Plain, Control, EOF
      <4> QED
        BY <4>1 DEF Following
    <3>4. c[1] = b /\ Len(c) = 1 /\ c \in Seq(Byte) /\ c # <<>>
      BY <3>1, <3>2
    <3>5. n = 0
      BY <3>3, <3>4
    <3> HIDE DEF n, ranges
    <3> QED
      BY <3>2, <3>4, <3>5
  <2> QED
    BY <2>1, <2>2
<1>2. /\ i \in Nat \ {0} /\ i + Len(c) <= Len(line) + 1 /\ Len(line) \in Nat
      /\ \A j \in 1 .. Len(c) : line[i + j - 1] = c[j]
  BY LenProperties DEF At
<1>3. get(line, i) = c[1]
  <2>1. 1 \in 1 .. Len(c) /\ i + 1 - 1 = i /\ i \in 1 .. Len(line)
    <3> HIDE DEF n, ranges
    <3> QED
      BY <1>1, <1>2
  <2> QED
    BY <1>2, <2>1 DEF get
<1>4. \A k \in 1 .. n : get(line, i + k) \in ranges[k]
  <2> HIDE DEF n, ranges
  <2> SUFFICES ASSUME NEW k \in 1 .. n PROVE get(line, i + k) \in ranges[k]
    OBVIOUS
  <2>1. k + 1 \in 1 .. Len(c) /\ i + (k + 1) - 1 = i + k /\ i + k \in 1 .. Len(line)
    BY <1>1, <1>2
  <2>2. get(line, i + k) = c[k + 1]
    BY <1>2, <2>1 DEF get
  <2> QED
    BY <1>1, <2>2
<1>5. PieceAt(line, i) = Character(line, i)
  BY <1>1, <1>3 DEF PieceAt
<1>6. Character(line, i) = Piece(SubSeq(line, i, (i + n + 1) - 1), i + n + 1)
  BY <1>3, <1>4, Zenon DEF Character
<1> HIDE DEF n, ranges
<1>7. (i + n + 1) - 1 = i + Len(c) - 1 /\ i + n + 1 = i + Len(c)
  BY <1>1, <1>2
<1>8. SubSeq(line, i, i + Len(c) - 1) = c
  BY <1>1, <1>2, SubSeqIsAt
<1> QED
  BY <1>1, <1>3, <1>5, <1>6, <1>7, <1>8 DEF ReadAs

\* A character is bytes.
LEMMA CharacterIsBytes ==
    ASSUME NEW c \in Characters
    PROVE  c \in Seq(Byte)
<1>1. PICK cp \in CodePoints : c = Utf8(cp)
  BY DEF Characters
<1>2. cp \in Nat
  BY DEF CodePoints
<1>3. CASE cp < 128
  <2>1. c = <<cp>>
    BY <1>1, <1>3, Utf8Shape
  <2>2. cp \in Byte
    BY <1>2, <1>3 DEF Byte
  <2> QED
    BY <2>1, <2>2
<1>4. CASE cp >= 128
  <2>1. c \in Seq(128 .. 255)
    BY <1>1, <1>4, Utf8Shape DEF Follows
  <2>2. 128 .. 255 \subseteq Byte
    BY DEF Byte
  <2> QED
    BY <2>1, <2>2, SeqMonotone, ZenonT(40)
<1> QED
  BY <1>2, <1>3, <1>4

\* Every character is read as one round.
LEMMA CharacterRead ==
    ASSUME NEW line \in Seq(Byte), NEW i, NEW c \in Characters, At(line, Escaped(c), i)
    PROVE  ReadAs(line, c, i)
<1>1. PICK cp \in CodePoints : c = Utf8(cp)
  BY DEF Characters
<1>2. cp \in Nat
  BY DEF CodePoints
<1>3. CASE cp < 128
  <2>1. c = <<cp>>
    BY <1>1, <1>3, Utf8Shape
  <2>2. cp \in Byte
    BY <1>2, <1>3 DEF Byte
  <2>3. CASE Letter(cp) # -1
    BY <2>1, <2>2, <2>3, LetterRead
  <2>4. CASE Letter(cp) = -1 /\ cp \in Control
    BY <2>1, <2>4, CodeRead
  <2>5. CASE Letter(cp) = -1 /\ cp \notin Control
    <3>1. Escaped(c) = c
      BY <2>1, <2>2, <2>5, EscapedByte, EscapeByteIsBytes
    <3>2. cp \notin {Quote, Backslash}
      <4>1. Letter(Quote) # -1 /\ Letter(Backslash) # -1
        BY DEF Letter, LF, CR, Quote, Backslash
      <4> QED
        BY <2>5, <4>1
    <3>3. cp \in Plain
      BY <1>2, <1>3, <2>5, <3>2 DEF Plain, Control
    <3>4. \E b \in Plain : c = <<b>>
      BY <2>1, <3>3
    <3>5. At(line, c, i)
      BY <3>1
    <3> QED
      BY <3>1, <3>4, <3>5, PlainRead
  <2> QED
    BY <2>3, <2>4, <2>5
<1>4. CASE cp >= 128
  <2>1. Follows(c)
    BY <1>1, <1>4, Utf8Shape
  <2>2. Escaped(c) = c
    BY <2>1, EscapedHigh DEF Follows
  <2>3. At(line, c, i)
    BY <2>2
  <2> QED
    BY <2>1, <2>2, <2>3, PlainRead
<1> QED
  BY <1>2, <1>3, <1>4

\* Where two texts in a row stand, both stand.
LEMMA AtConcat ==
    ASSUME NEW S, NEW s \in Seq(S), NEW a \in Seq(S), NEW b \in Seq(S), NEW i, At(s, a \o b, i)
    PROVE  At(s, a, i) /\ At(s, b, i + Len(a))
<1> DEFINE w == a \o b
           m == Len(a)
           n == Len(b)
<1>1. m \in Nat /\ n \in Nat /\ Len(s) \in Nat
  BY LenProperties
<1>2. /\ Len(w) = m + n
      /\ \A j \in 1 .. m + n : w[j] = IF j <= m THEN a[j] ELSE b[j - m]
  BY ConcatProperties
<1>3. /\ i \in Nat \ {0} /\ i + Len(w) <= Len(s) + 1
      /\ \A j \in 1 .. Len(w) : s[i + j - 1] = w[j]
  BY DEF At
<1> HIDE DEF w, m, n
<1>4. \A j \in 1 .. m : s[i + j - 1] = a[j]
  <2> SUFFICES ASSUME NEW j \in 1 .. m PROVE s[i + j - 1] = a[j]
    OBVIOUS
  <2>1. j \in 1 .. m + n /\ j <= m
    BY <1>1
  <2> QED
    BY <1>2, <1>3, <2>1
<1>5. \A j \in 1 .. n : s[(i + m) + j - 1] = b[j]
  <2> SUFFICES ASSUME NEW j \in 1 .. n PROVE s[(i + m) + j - 1] = b[j]
    OBVIOUS
  <2>1. m + j \in 1 .. m + n /\ ~(m + j <= m) /\ (m + j) - m = j
        /\ (i + m) + j - 1 = i + (m + j) - 1
    BY <1>1, <1>3
  <2> QED
    BY <1>2, <1>3, <2>1
<1>6. i + m <= Len(s) + 1 /\ (i + m) + n <= Len(s) + 1 /\ i + m \in Nat \ {0}
  BY <1>1, <1>2, <1>3
<1> QED
  BY <1>3, <1>4, <1>5, <1>6 DEF At, m, n

\* A round that is one character goes in front of what the others read.
LEMMA OneRound ==
    ASSUME NEW line \in Seq(Byte), NEW i, NEW c \in Characters, At(line, Escaped(c), i),
           NEW v, NEW e, scan_string(line, i + Len(Escaped(c))) = Token("value_string", v, e)
    PROVE  scan_string(line, i) = Token("value_string", c \o v, e)
<1> DEFINE next == i + Len(Escaped(c))
           piece == PieceAt(line, i)
<1>1. get(line, i) # Quote /\ piece = Piece(c, next)
  BY CharacterRead DEF ReadAs
<1>2. i \in 1 .. Len(line) + 1
  <2>1. i \in Nat \ {0} /\ next <= Len(line) + 1 /\ Len(line) \in Nat
    BY LenProperties DEF At
  <2>2. Len(Escaped(c)) \in Nat
    BY CharacterIsBytes, EscapedAppend, LenProperties, EscapedEmpty
  <2> QED
    BY <2>1, <2>2
<1>3. piece.ok /\ piece.bytes = c /\ piece.next = next
  BY <1>1 DEF Piece
<1>4. scan_string(line, i) =
          IF get(line, i) = Quote THEN Token("value_string", <<>>, i + 1)
          ELSE IF piece.ok THEN InFront(piece.bytes, scan_string(line, piece.next)) ELSE ParseError
  BY <1>2, ScanUnfolds
<1> HIDE DEF piece, next
<1>5. scan_string(line, i) = InFront(c, scan_string(line, next))
  BY <1>1, <1>3, <1>4, Zenon
<1>6. scan_string(line, next) = Token("value_string", v, e)
  BY DEF next
<1> DEFINE rest == scan_string(line, next)
<1>7. rest.type = "value_string" /\ rest.value = v /\ rest.next = e
  <2> HIDE DEF rest
  <2> QED
    BY <1>6 DEF Token, rest
<1>8. InFront(c, rest) = Token("value_string", c \o v, e)
  <2> HIDE DEF rest
  <2>1. rest.type # "parse_error"
    BY <1>7
  <2> QED
    BY <1>7, <2>1, Zenon DEF InFront
<1> QED
  BY <1>5, <1>8, Zenon

\* One more character puts its bytes behind the text.
LEMMA CharactersAppend ==
    ASSUME NEW f \in Seq(Characters), NEW c \in Characters
    PROVE  /\ FlattenSeq(f) \in Seq(Byte) /\ c \in Seq(Byte)
           /\ FlattenSeq(Append(f, c)) = FlattenSeq(f) \o c
<1>1. Characters \subseteq Seq(Byte)
  BY CharacterIsBytes
<1>2. f \in Seq(Seq(Byte)) /\ c \in Seq(Byte)
  BY <1>1, SeqMonotone
<1> QED
  BY <1>2, FlattenAppend

\* The rounds that read the characters one after the other.
ReadInFront(line, text, i) ==
    \A v \in Seq(Byte) : \A e :
        scan_string(line, i + Len(Escaped(text))) = Token("value_string", v, e)
        => scan_string(line, i) = Token("value_string", text \o v, e)

\* The characters of a text are read one after the other.
LEMMA CharactersRead ==
    ASSUME NEW line \in Seq(Byte), NEW chars \in Seq(Characters), NEW i,
           At(line, Escaped(FlattenSeq(chars)), i)
    PROVE  ReadInFront(line, FlattenSeq(chars), i)
<1> DEFINE T == {n \in Nat : \A u \in Seq(Characters) :
                     Len(u) = n /\ At(line, Escaped(FlattenSeq(u)), i)
                     => ReadInFront(line, FlattenSeq(u), i)}
<1>1. 0 \in T
  <2> SUFFICES ASSUME NEW u \in Seq(Characters), Len(u) = 0,
                      At(line, Escaped(FlattenSeq(u)), i)
               PROVE  ReadInFront(line, FlattenSeq(u), i)
    OBVIOUS
  <2>1. u = <<>>
    BY EmptySeq
  <2>2. FlattenSeq(u) = <<>> /\ Escaped(FlattenSeq(u)) = <<>>
    BY <2>1, FlattenEmpty, EscapedEmpty
  <2>3. i + Len(<<>>) = i
    BY DEF At
  <2>4. \A v \in Seq(Byte) : <<>> \o v = v
    BY ConcatEmptySeq
  <2> QED
    BY <2>2, <2>3, <2>4, Zenon DEF ReadInFront
<1>2. ASSUME NEW n \in Nat, n \in T PROVE n + 1 \in T
  <2> SUFFICES ASSUME NEW u \in Seq(Characters), Len(u) = n + 1,
                      At(line, Escaped(FlattenSeq(u)), i),
                      NEW v \in Seq(Byte), NEW e,
                      scan_string(line, i + Len(Escaped(FlattenSeq(u)))) = Token("value_string", v, e)
               PROVE  scan_string(line, i) = Token("value_string", FlattenSeq(u) \o v, e)
    BY DEF ReadInFront
  <2>1. u # <<>>
    BY EmptySeq
  <2>2. PICK f \in Seq(Characters), c \in Characters : u = Append(f, c)
    BY <2>1, SequenceEmptyOrAppend
  <2>3. Len(f) = n
    <3>1. Len(u) = Len(f) + 1 /\ Len(f) \in Nat
      BY <2>2, AppendProperties, LenProperties
    <3> QED
      BY <3>1
  <2> DEFINE t == FlattenSeq(f)
  <2>4. t \in Seq(Byte) /\ c \in Seq(Byte) /\ FlattenSeq(u) = t \o c
    BY <2>2, CharactersAppend
  <2>5. /\ Escaped(t) \in Seq(Byte) /\ Escaped(c) \in Seq(Byte)
        /\ Escaped(FlattenSeq(u)) = Escaped(t) \o Escaped(c)
    BY <2>4, EscapedInBytes, EscapedConcat
  <2> HIDE DEF t
  <2>6. At(line, Escaped(t) \o Escaped(c), i)
    BY <2>5
  <2>7. At(line, Escaped(t), i) /\ At(line, Escaped(c), i + Len(Escaped(t)))
    BY <2>5, <2>6, AtConcat
  <2>8. i + Len(Escaped(FlattenSeq(u))) = (i + Len(Escaped(t))) + Len(Escaped(c))
    <3>1. Len(Escaped(t)) \in Nat /\ Len(Escaped(c)) \in Nat /\ i \in Nat
      BY <2>5, <2>7, LenProperties DEF At
    <3>2. Len(Escaped(t) \o Escaped(c)) = Len(Escaped(t)) + Len(Escaped(c))
      BY <2>5, ConcatProperties
    <3> DEFINE x == Len(Escaped(t))
               y == Len(Escaped(c))
    <3> HIDE DEF x, y
    <3>3. x \in Nat /\ y \in Nat /\ i + (x + y) = (i + x) + y
      BY <3>1 DEF x, y
    <3> QED
      BY <2>5, <3>2, <3>3, Zenon DEF x, y
  <2>9. scan_string(line, (i + Len(Escaped(t))) + Len(Escaped(c))) = Token("value_string", v, e)
    BY <2>8
  <2>10. scan_string(line, i + Len(Escaped(t))) = Token("value_string", c \o v, e)
    BY <2>2, <2>7, <2>9, OneRound
  <2>11. c \o v \in Seq(Byte)
    BY <2>4, ConcatProperties
  <2>12. ReadInFront(line, t, i)
    BY <1>2, <2>3, <2>7, Zenon DEF t
  <2>13. scan_string(line, i) = Token("value_string", t \o (c \o v), e)
    BY <2>10, <2>11, <2>12, Zenon DEF ReadInFront
  <2>14. t \o (c \o v) = (t \o c) \o v
    <3>1. (t \o c) \o v = t \o (c \o v)
      BY <2>4, BytesAssociative, Zenon
    <3> QED
      BY <3>1, Zenon
  <2> QED
    BY <2>4, <2>13, <2>14, Zenon
<1> HIDE DEF T
<1>3. Len(chars) \in T
  BY <1>1, <1>2, Induction, LenProperties
<1> QED
  BY <1>3, Zenon DEF T

\* A well-formed text that dump_escaped wrote is the text that scan_string
\* reads, wherever it stands and whatever is behind it, and the reader goes
\* on behind the closing quote.
THEOREM StringIsRead ==
    ASSUME NEW chars \in Seq(Characters), NEW before \in Seq(Byte), NEW after \in Seq(Byte)
    PROVE  LET text == FlattenSeq(chars)
               line == before \o dump_escaped(text) \o after
           IN  scan_string(line, Len(before) + 2)
                   = Token("value_string", text, Len(before) + Len(dump_escaped(text)) + 1)
<1> DEFINE text == FlattenSeq(chars)
           q == <<Quote>>
           m == Escaped(text)
           d == dump_escaped(text)
           line == before \o d \o after
           b == Len(before)
           n == Len(m)
           i == b + 2
<1>1. text \in Seq(Byte)
  <2>1. Characters \subseteq Seq(Byte)
    BY CharacterIsBytes
  <2>2. chars \in Seq(Seq(Byte)) /\ <<>> \in Seq(Byte)
    BY <2>1, SeqMonotone, EmptySeq
  <2> QED
    BY <2>2, FlattenAppend
<1>2. m \in Seq(Byte) /\ d = q \o m \o q
  BY <1>1, EscapedInBytes, NoControlByte
<1>3. q \in Seq(Byte) /\ Len(q) = 1 /\ q[1] = Quote
  BY DEF Quote, Byte
<1> HIDE DEF q, m, text
<1>4. d \in Seq(Byte) /\ InARow(d, q, m, q)
  BY <1>2, <1>3, ConcatInARow
<1> HIDE DEF d
<1>5. line \in Seq(Byte) /\ InARow(line, before, d, after)
  BY <1>4, ConcatInARow
<1>6. b \in Nat /\ n \in Nat /\ Len(after) \in Nat
  BY <1>2, LenProperties
<1> HIDE DEF line, n, b
<1>7. /\ Len(d) = n + 2
      /\ \A j \in 1 .. n : d[j + 1] = m[j]
      /\ d[n + 2] = Quote
  <2>1. /\ Len(d) = 1 + n + 1
        /\ \A k \in 1 .. 1 + n + 1 : d[k] = IF k <= 1 THEN q[k]
                                            ELSE IF k <= 1 + n THEN m[k - 1] ELSE q[k - 1 - n]
    BY <1>3, <1>4, Zenon DEF InARow, n
  <2>2. \A j \in 1 .. n : d[j + 1] = m[j]
    <3> SUFFICES ASSUME NEW j \in 1 .. n PROVE d[j + 1] = m[j]
      OBVIOUS
    <3>1. j + 1 \in 1 .. 1 + n + 1 /\ ~(j + 1 <= 1) /\ j + 1 <= 1 + n /\ (j + 1) - 1 = j
      BY <1>6
    <3> QED
      BY <2>1, <3>1
  <2>3. n + 2 \in 1 .. 1 + n + 1 /\ ~(n + 2 <= 1) /\ ~(n + 2 <= 1 + n) /\ (n + 2) - 1 - n = 1
    BY <1>6
  <2>4. d[n + 2] = q[1]
    BY <2>1, <2>3
  <2>5. 1 + n + 1 = n + 2
    BY <1>6
  <2> QED
    BY <1>3, <2>1, <2>2, <2>4, <2>5
<1>8. /\ Len(line) >= b + n + 2
      /\ \A k \in 1 .. n + 2 : line[b + k] = d[k]
  <2>1. /\ Len(line) = b + (n + 2) + Len(after)
        /\ \A k \in 1 .. b + (n + 2) + Len(after) :
               line[k] = IF k <= b THEN before[k]
                         ELSE IF k <= b + (n + 2) THEN d[k - b] ELSE after[k - b - (n + 2)]
    BY <1>5, <1>7, Zenon DEF InARow, b
  <2>2. ASSUME NEW k \in 1 .. n + 2 PROVE line[b + k] = d[k]
    <3>1. b + k \in 1 .. b + (n + 2) + Len(after) /\ ~(b + k <= b) /\ b + k <= b + (n + 2)
          /\ (b + k) - b = k
      BY <1>6
    <3> QED
      BY <2>1, <3>1
  <2>3. Len(line) >= b + n + 2
    BY <1>6, <2>1
  <2> QED
    BY <2>2, <2>3
<1>9. Len(line) \in Nat
  BY <1>5, LenProperties
<1>10. At(line, m, i)
  <2>1. \A j \in 1 .. n : line[i + j - 1] = m[j]
    <3> SUFFICES ASSUME NEW j \in 1 .. n PROVE line[i + j - 1] = m[j]
      OBVIOUS
    <3>1. i + j - 1 = b + (j + 1) /\ j + 1 \in 1 .. n + 2
      BY <1>6
    <3> QED
      BY <1>7, <1>8, <3>1
  <2>2. i \in Nat \ {0} /\ i + n <= Len(line) + 1
    BY <1>6, <1>8, <1>9
  <2> QED
    BY <2>1, <2>2 DEF At, n
<1>11. get(line, i + n) = Quote
  <2>1. i + n = b + (n + 2) /\ n + 2 \in 1 .. n + 2 /\ i + n \in 1 .. Len(line)
    BY <1>6, <1>8, <1>9
  <2> QED
    BY <1>7, <1>8, <2>1 DEF get
<1>12. scan_string(line, i + n) = Token("value_string", <<>>, (i + n) + 1)
  <2>1. i + n \in 1 .. Len(line) + 1
    BY <1>6, <1>8, <1>9
  <2> QED
    BY <1>5, <1>11, <2>1, ScanUnfolds
<1>13. scan_string(line, i) = Token("value_string", text \o <<>>, (i + n) + 1)
  <2>1. ReadInFront(line, text, i)
    BY <1>5, <1>10, CharactersRead DEF m, text
  <2>2. <<>> \in Seq(Byte)
    OBVIOUS
  <2> HIDE DEF i
  <2> QED
    BY <1>12, <2>1, <2>2, Zenon DEF ReadInFront, m, n
<1>14. text \o <<>> = text
  BY <1>1, ConcatEmptySeq
<1>15. (i + n) + 1 = b + Len(d) + 1
  BY <1>6, <1>7
<1> QED
  BY <1>13, <1>14, <1>15, Zenon DEF line, d, text, b

-----------------------------------------------------------------------------
(* Lines *)

\* ReceiveLine makes the text of it that sendMessage sent, whatever came
\* before and comes after, and goes on behind its LF.  A text without the
\* bytes 0 and CR: what dump_escaped writes is one.
THEOREM LineIsReceived ==
    ASSUME NEW text \in Seq(Byte), \A k \in 1 .. Len(text) : text[k] \notin {0, CR},
           NEW before \in Seq(Byte), NEW after \in Seq(Byte)
    PROVE  ReceiveLine(before \o Line(text) \o after, Len(before) + 1)
               = [line |-> text, next |-> Len(before) + Len(Line(text)) + 1]
<1> DEFINE z == <<CR, LF>>
           d == Line(text)
           stream == before \o d \o after
           b == Len(before)
           n == Len(text)
           i == b + 1
           cr == i + n
<1>1. z \in Seq(Byte) /\ Len(z) = 2 /\ z[1] = CR
  BY DEF CR, LF, Byte
<1>2. d = text \o z
  BY DEF Line
<1> HIDE DEF z, d
<1>3. /\ d \in Seq(Byte) /\ Len(d) = n + 2
      /\ \A k \in 1 .. n + 2 : d[k] = IF k <= n THEN text[k] ELSE z[k - n]
  <2>1. /\ text \o z \in Seq(Byte) /\ Len(text \o z) = Len(text) + Len(z)
        /\ \A k \in 1 .. Len(text) + Len(z) :
               (text \o z)[k] = IF k <= Len(text) THEN text[k] ELSE z[k - Len(text)]
    BY <1>1, ConcatProperties, ZenonT(40)
  <2> HIDE DEF n
  <2> QED
    BY <1>1, <1>2, <2>1, Zenon DEF n
<1>4. stream \in Seq(Byte) /\ InARow(stream, before, d, after)
  BY <1>3, ConcatInARow
<1>5. b \in Nat /\ n \in Nat /\ Len(after) \in Nat /\ Len(stream) \in Nat
  BY <1>4, LenProperties
<1> HIDE DEF stream, b, n
<1>6. /\ Len(stream) >= b + n + 2
      /\ \A k \in 1 .. n + 2 : stream[b + k] = d[k]
  <2>1. /\ Len(stream) = b + (n + 2) + Len(after)
        /\ \A k \in 1 .. b + (n + 2) + Len(after) :
               stream[k] = IF k <= b THEN before[k]
                           ELSE IF k <= b + (n + 2) THEN d[k - b] ELSE after[k - b - (n + 2)]
    BY <1>3, <1>4, Zenon DEF InARow, b
  <2>2. ASSUME NEW k \in 1 .. n + 2 PROVE stream[b + k] = d[k]
    <3>1. b + k \in 1 .. b + (n + 2) + Len(after) /\ ~(b + k <= b) /\ b + k <= b + (n + 2)
          /\ (b + k) - b = k
      BY <1>5
    <3> QED
      BY <2>1, <3>1
  <2>3. Len(stream) >= b + n + 2
    BY <1>5, <2>1
  <2> QED
    BY <2>2, <2>3
<1>7. \A k \in 1 .. n : stream[i + k - 1] = text[k] /\ stream[i + k - 1] \notin {0, CR}
  <2> SUFFICES ASSUME NEW k \in 1 .. n
               PROVE  stream[i + k - 1] = text[k] /\ stream[i + k - 1] \notin {0, CR}
    OBVIOUS
  <2>1. i + k - 1 = b + k /\ k \in 1 .. n + 2 /\ k <= n
    BY <1>5
  <2>2. text[k] \notin {0, CR}
    BY DEF n
  <2> QED
    BY <1>3, <1>6, <2>1, <2>2
<1>8. stream[cr] = CR
  <2>1. cr = b + (n + 1) /\ n + 1 \in 1 .. n + 2 /\ ~(n + 1 <= n) /\ (n + 1) - n = 1
    BY <1>5
  <2> QED
    BY <1>1, <1>3, <1>6, <2>1
<1>9. Min({k \in i .. Len(stream) : stream[k] = CR}) = cr
  <2> DEFINE places == {k \in i .. Len(stream) : stream[k] = CR}
  <2>1. places \subseteq Nat
    BY <1>5
  <2>2. cr \in places
    BY <1>5, <1>6, <1>8
  <2>3. ASSUME NEW k \in places PROVE cr <= k
    <3>1. SUFFICES ASSUME ~(cr <= k) PROVE FALSE
      OBVIOUS
    <3>2. k - i + 1 \in 1 .. n /\ i + (k - i + 1) - 1 = k
      BY <1>5, <3>1
    <3> QED
      BY <1>7, <3>2
  <2> HIDE DEF places, cr
  <2> QED
    BY <2>1, <2>2, <2>3, LeastIsMin DEF places
<1>10. SubSeq(stream, i, cr - 1) = text
  <2>1. i \in Nat \ {0} /\ i + n <= Len(stream) + 1 /\ cr - 1 = i + n - 1
    BY <1>5, <1>6
  <2> DEFINE t == SubSeq(stream, i, i + n - 1)
  <2> HIDE DEF i
  <2>2. t \in Seq(Byte) /\ Len(t) = n /\ \A k \in 1 .. n : t[k] = stream[i + k - 1]
    BY <1>4, <1>5, <2>1, SubSeqElements
  <2> HIDE DEF t, cr
  <2>3. t = text
    BY <1>7, <2>2, SeqEqual DEF n
  <2> QED
    BY <2>1, <2>3 DEF t
<1>11. CStrings(text) = text
  <2>1. DOMAIN text = 1 .. Len(text)
    BY LenProperties
  <2> QED
    BY <2>1 DEF CStrings
<1>12. cr - i = n /\ cr + 2 = b + Len(d) + 1
  BY <1>3, <1>5
<1> HIDE DEF cr, i
<1>13. ReceiveLine(stream, i) = [line |-> text, next |-> cr + 2]
  <2>1. CStrings(SubSeq(stream, i, cr - 1)) = text
    BY <1>10, <1>11
  <2> QED
    BY <1>9, <2>1 DEF ReceiveLine
<1> QED
  BY <1>12, <1>13, Zenon DEF stream, d, i, b

=============================================================================
