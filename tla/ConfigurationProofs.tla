------------------------- MODULE ConfigurationProofs -------------------------
(***************************************************************************)
(* Theorems about Configuration, for any file: what is read of it, by      *)
(* induction over its elements, and the threads that are made of it.       *)
(***************************************************************************)
EXTENDS Configuration, SequenceLemmas, FiniteSetTheorems

-----------------------------------------------------------------------------
(* One element *)

(* GetAllSubKeysOf gives the values up to the first number that is missing.  *)
LEMMA SubKeys ==
    ASSUME NEW i \in DOMAIN Document, NEW Str
    PROVE  \E n \in Nat :
             /\ GetAllSubKeysOf(Document[i], Str)
                    = [k \in 1 .. n |-> Numbered(Document[i], Str)[k]]
             /\ \A k \in Nat : 1 .. k \subseteq DOMAIN Numbered(Document[i], Str) => k <= n
<1> DEFINE values == Numbered(Document[i], Str)
           size == Cardinality(DOMAIN values)
           K == {k \in 0 .. size : 1 .. k \subseteq DOMAIN values}
<1>1. IsFiniteSet(DOMAIN values)
  <2>1. IsFiniteSet({}) /\ DOMAIN <<>> = {}
    BY FS_EmptySet
  <2> QED
    BY <2>1, DocumentAssumption DEF Numbered
<1> HIDE DEF values
<1>2. size \in Nat
  BY <1>1, FS_CardinalityType
<1>3. \A k \in Nat : 1 .. k \subseteq DOMAIN values => k \in K
  <2> SUFFICES ASSUME NEW k \in Nat, 1 .. k \subseteq DOMAIN values PROVE k \in K
    OBVIOUS
  <2>1. Cardinality(1 .. k) = k
    <3>1. Cardinality(1 .. k) = IF 1 > k THEN 0 ELSE k - 1 + 1
      BY FS_Interval
    <3> QED
      BY <3>1
  <2>2. k <= size
    BY <1>1, <2>1, FS_Subset
  <2> QED
    BY <1>2, <2>2
<1>4. 0 \in K /\ K \subseteq 0 .. size
  BY <1>2
<1> HIDE DEF K, size
<1>5. PICK x \in K : \A y \in K : y <= x
  BY <1>2, <1>4, GreatestElement
<1>6. \A y \in K : y \in Nat
  BY <1>2, <1>4
<1>7. Max(K) \in K /\ \A y \in K : y <= Max(K)
  <2>1. \E z \in K : \A y \in K : z >= y
    BY <1>5, <1>6
  <2>2. Max(K) \in K /\ \A y \in K : Max(K) >= y
    BY <2>1 DEF Max
  <2> QED
    BY <1>6, <2>2
<1>8. GetAllSubKeysOf(Document[i], Str) = [k \in 1 .. Max(K) |-> values[k]]
  BY DEF GetAllSubKeysOf, K, size, values
<1> QED
  BY <1>3, <1>6, <1>7, <1>8 DEF values

-----------------------------------------------------------------------------
(* The elements, one after the other *)

(* Config is what the elements make of it, one after the other.              *)
LEMMA ReadInOrder ==
    \E f : /\ Config = f[Len(Document)]
           /\ f = [i \in 0 .. Len(Document) |->
                      IF i = 0 THEN EmptyConfig ELSE Read(f[i - 1], Document[i])]
<1> DEFINE Is(f, n) == f = [i \in 0 .. n |->
                               IF i = 0 THEN EmptyConfig ELSE Read(f[i - 1], Document[i])]
           T == {n \in Nat : \E f : Is(f, n)}
<1>1. 0 \in T
  <2>1. Is([i \in 0 .. 0 |-> EmptyConfig], 0)
    OBVIOUS
  <2> QED
    BY <2>1
<1>2. ASSUME NEW n \in Nat, n \in T PROVE n + 1 \in T
  <2>1. PICK f : Is(f, n)
    BY <1>2
  <2> DEFINE g == [i \in 0 .. n + 1 |-> IF i <= n THEN f[i] ELSE Read(f[i - 1], Document[i])]
  <2>2. \A i \in 0 .. n : g[i] = f[i]
    OBVIOUS
  <2>3. ASSUME NEW i \in 0 .. n + 1
        PROVE  g[i] = IF i = 0 THEN EmptyConfig ELSE Read(g[i - 1], Document[i])
    <3>1. CASE i = 0
      BY <2>1, <3>1
    <3>2. CASE i # 0
      <4>1. i - 1 \in 0 .. n /\ g[i - 1] = f[i - 1]
        BY <2>2, <3>2
      <4>2. g[i] = Read(f[i - 1], Document[i])
        <5>1. CASE i <= n
          <6>1. i \in 0 .. n
            BY <5>1
          <6> QED
            BY <2>1, <2>2, <3>2, <6>1
        <5>2. CASE ~(i <= n)
          BY <5>2
        <5> QED
          BY <5>1, <5>2
      <4> HIDE DEF g
      <4> QED
        BY <3>2, <4>1, <4>2
    <3> QED
      BY <3>1, <3>2
  <2>4. g = [i \in 0 .. n + 1 |-> g[i]]
    OBVIOUS
  <2> HIDE DEF g
  <2>5. Is(g, n + 1)
    BY <2>3, <2>4
  <2> QED
    BY <2>5
<1> HIDE DEF T
<1>3. Len(Document) \in T
  BY <1>1, <1>2, Induction, DocumentAssumption
<1>4. \E f : Is(f, Len(Document))
  BY <1>3 DEF T
<1>5. Is(CHOOSE f : Is(f, Len(Document)), Len(Document))
  <2> HIDE DEF Is
  <2> QED
    BY <1>4
<1>6. Config = (CHOOSE f : Is(f, Len(Document)))[Len(Document)]
  BY DEF Config
<1> QED
  BY <1>5, <1>6

IsVector(s) == \E S : s \in Seq(S)

(* What is true of the Config after i elements: it has its members,          *)
(* m_Threads and m_MsgMap are vectors, and as long as nothing was missing    *)
(* every thread that was listed is among m_Threads.                          *)
ReadUpTo(conf, i) ==
    /\ DOMAIN conf = DOMAIN EmptyConfig
    /\ conf.ok \in BOOLEAN
    /\ IsVector(conf.m_Threads) /\ IsVector(conf.m_MsgMap)
    /\ conf.ok => \A j \in 1 .. i : Document[j].tag = "Threads" =>
         \A k \in DOMAIN GetAllSubKeysOf(Document[j], "ThreadID") :
             \E m \in DOMAIN conf.m_Threads :
                 conf.m_Threads[m].ThreadID = GetAllSubKeysOf(Document[j], "ThreadID")[k]

(* Both parts of a concatenation are in it.                                  *)
LEMMA VectorConcat ==
    ASSUME NEW s, NEW t, IsVector(s), IsVector(t)
    PROVE  /\ IsVector(s \o t)
           /\ \A m \in DOMAIN s : m \in DOMAIN (s \o t) /\ (s \o t)[m] = s[m]
<1>1. PICK S : s \in Seq(S)
  BY DEF IsVector
<1>2. PICK T : t \in Seq(T)
  BY DEF IsVector
<1>3. s \in Seq(S \union T) /\ t \in Seq(S \union T)
  BY <1>1, <1>2, SeqMonotone
<1>4. /\ s \o t \in Seq(S \union T) /\ Len(s \o t) = Len(s) + Len(t)
      /\ \A i \in 1 .. Len(s) + Len(t) :
             (s \o t)[i] = IF i <= Len(s) THEN s[i] ELSE t[i - Len(s)]
  BY <1>3, ConcatProperties
<1>5. /\ Len(s) \in Nat /\ Len(t) \in Nat
      /\ DOMAIN s = 1 .. Len(s) /\ DOMAIN t = 1 .. Len(t)
      /\ DOMAIN (s \o t) = 1 .. Len(s) + Len(t)
  BY <1>3, <1>4, LenProperties
<1>6. ASSUME NEW m \in DOMAIN s PROVE m \in DOMAIN (s \o t) /\ (s \o t)[m] = s[m]
  BY <1>4, <1>5
<1> QED
  BY <1>4, <1>6 DEF IsVector

LEMMA VectorConcatLast ==
    ASSUME NEW s, NEW t, IsVector(s), IsVector(t), NEW k \in DOMAIN t
    PROVE  \E m \in DOMAIN (s \o t) : (s \o t)[m] = t[k]
<1>1. PICK S : s \in Seq(S)
  BY DEF IsVector
<1>2. PICK T : t \in Seq(T)
  BY DEF IsVector
<1>3. s \in Seq(S \union T) /\ t \in Seq(S \union T)
  BY <1>1, <1>2, SeqMonotone
<1>4. /\ s \o t \in Seq(S \union T) /\ Len(s \o t) = Len(s) + Len(t)
      /\ \A i \in 1 .. Len(s) + Len(t) :
             (s \o t)[i] = IF i <= Len(s) THEN s[i] ELSE t[i - Len(s)]
  BY <1>3, ConcatProperties
<1>5. /\ Len(s) \in Nat /\ Len(t) \in Nat
      /\ k \in 1 .. Len(t) /\ DOMAIN (s \o t) = 1 .. Len(s) + Len(t)
  BY <1>3, <1>4, LenProperties
<1>6. Len(s) + k \in 1 .. Len(s) + Len(t) /\ ~(Len(s) + k <= Len(s))
      /\ (Len(s) + k) - Len(s) = k
  BY <1>5
<1>7. (s \o t)[Len(s) + k] = t[k]
  BY <1>4, <1>6
<1> QED
  BY <1>5, <1>6, <1>7

LEMMA FunctionIsVector ==
    ASSUME NEW n \in Nat, NEW f, f = [i \in 1 .. n |-> f[i]]
    PROVE  IsVector(f)
<1>1. f \in [1 .. n -> {f[i] : i \in 1 .. n}]
  OBVIOUS
<1> QED
  BY <1>1, FunctionIsSeq DEF IsVector

(* One more element.                                                         *)
LEMMA ReadOne ==
    ASSUME NEW conf, NEW i \in Nat, i + 1 \in DOMAIN Document, ReadUpTo(conf, i)
    PROVE  ReadUpTo(Read(conf, Document[i + 1]), i + 1)
<1> DEFINE element == Document[i + 1]
           Ids(e) == GetAllSubKeysOf(e, "ThreadID")
           next == Read(conf, element)
<1> SUFFICES ReadUpTo(next, i + 1)
  OBVIOUS
<1>1. \A j \in 1 .. i + 1 : j \in 1 .. i \/ j = i + 1
  OBVIOUS
<1>2. DOMAIN EmptyConfig = {"ok", "Logger", "TCPClient", "m_ConfPersons", "m_Threads",
                            "m_MsgMap", "m_Logic"}
  BY DEF EmptyConfig
<1>3. PICK n \in Nat : Ids(element) = [k \in 1 .. n |-> Numbered(element, "ThreadID")[k]]
  BY SubKeys
<1>4. /\ IsVector(ConfThreads(element)) /\ DOMAIN ConfThreads(element) = DOMAIN Ids(element)
      /\ \A k \in DOMAIN Ids(element) : ConfThreads(element)[k].ThreadID = Ids(element)[k]
  <2>1. DOMAIN Ids(element) = 1 .. n
    BY <1>3
  <2> HIDE DEF element
  <2>2. /\ DOMAIN ConfThreads(element) = 1 .. n
        /\ ConfThreads(element) = [k \in 1 .. n |-> ConfThreads(element)[k]]
    BY <2>1 DEF ConfThreads
  <2>3. \A k \in DOMAIN Ids(element) : ConfThreads(element)[k].ThreadID = Ids(element)[k]
    BY DEF ConfThreads
  <2> QED
    BY <2>1, <2>2, <2>3, FunctionIsVector
<1>5. IsVector(ConfMsgMap(element))
  <2>1. PICK p \in Nat :
          GetAllSubKeysOf(element, "MsgID") = [k \in 1 .. p |-> Numbered(element, "MsgID")[k]]
    BY SubKeys
  <2>2. DOMAIN GetAllSubKeysOf(element, "MsgID") = 1 .. p
    BY <2>1
  <2> HIDE DEF element
  <2>3. ConfMsgMap(element) = [k \in 1 .. p |-> ConfMsgMap(element)[k]]
    BY <2>2 DEF ConfMsgMap
  <2> QED
    BY <2>3, FunctionIsVector
<1> HIDE DEF element, next
<1>6. CASE next.ok = FALSE /\ DOMAIN next = DOMAIN conf
           /\ next.m_Threads = conf.m_Threads /\ next.m_MsgMap = conf.m_MsgMap
  BY <1>6 DEF ReadUpTo
<1>7. CASE /\ conf.ok = TRUE /\ next.ok \in BOOLEAN /\ DOMAIN next = DOMAIN conf
           /\ element.tag # "Threads" /\ next.m_Threads = conf.m_Threads
           /\ IsVector(next.m_MsgMap)
  BY <1>1, <1>7 DEF ReadUpTo, element
<1>8. CASE /\ conf.ok = TRUE /\ next.ok = TRUE /\ DOMAIN next = DOMAIN conf
           /\ element.tag = "Threads"
           /\ next.m_Threads = conf.m_Threads \o ConfThreads(element)
           /\ next.m_MsgMap = conf.m_MsgMap
  <2> DEFINE old == conf.m_Threads
             new == next.m_Threads
  <2>1. /\ IsVector(new)
        /\ \A m \in DOMAIN old : m \in DOMAIN new /\ new[m] = old[m]
        /\ \A k \in DOMAIN ConfThreads(element) :
               \E m \in DOMAIN new : new[m] = ConfThreads(element)[k]
    <3>1. IsVector(old)
      BY DEF ReadUpTo
    <3>2. new = old \o ConfThreads(element)
      BY <1>8
    <3> DEFINE added == ConfThreads(element)
    <3>3. IsVector(added)
      BY <1>4
    <3> HIDE DEF old, new, added
    <3>4. IsVector(old \o added)
      BY <3>1, <3>3, VectorConcat
    <3>5. \A m \in DOMAIN old : m \in DOMAIN (old \o added) /\ (old \o added)[m] = old[m]
      BY <3>1, <3>3, VectorConcat
    <3>6. \A k \in DOMAIN added : \E m \in DOMAIN (old \o added) : (old \o added)[m] = added[k]
      BY <3>1, <3>3, VectorConcatLast
    <3> QED
      BY <3>2, <3>4, <3>5, <3>6 DEF added
  <2>2. ASSUME NEW j \in 1 .. i + 1, Document[j].tag = "Threads",
               NEW k \in DOMAIN Ids(Document[j])
        PROVE  \E m \in DOMAIN new : new[m].ThreadID = Ids(Document[j])[k]
    <3>1. CASE j \in 1 .. i
      <4>1. PICK m \in DOMAIN old : old[m].ThreadID = Ids(Document[j])[k]
        BY <1>8, <2>2, <3>1 DEF ReadUpTo
      <4> QED
        BY <2>1, <4>1
    <3>2. CASE j = i + 1
      <4>1. k \in DOMAIN Ids(element) /\ Document[j] = element
        BY <2>2, <3>2 DEF element
      <4>2. PICK m \in DOMAIN new : new[m] = ConfThreads(element)[k]
        BY <1>4, <2>1, <4>1
      <4> QED
        BY <1>4, <4>1, <4>2
    <3> QED
      BY <1>1, <3>1, <3>2
  <2> HIDE DEF old, new
  <2> QED
    BY <1>8, <2>1, <2>2 DEF ReadUpTo, new
<1>9. \/ /\ next.ok = FALSE /\ DOMAIN next = DOMAIN conf
         /\ next.m_Threads = conf.m_Threads /\ next.m_MsgMap = conf.m_MsgMap
      \/ /\ conf.ok = TRUE /\ next.ok \in BOOLEAN /\ DOMAIN next = DOMAIN conf
         /\ element.tag # "Threads" /\ next.m_Threads = conf.m_Threads
         /\ IsVector(next.m_MsgMap)
      \/ /\ conf.ok = TRUE /\ next.ok = TRUE /\ DOMAIN next = DOMAIN conf
         /\ element.tag = "Threads"
         /\ next.m_Threads = conf.m_Threads \o ConfThreads(element)
         /\ next.m_MsgMap = conf.m_MsgMap
  <2> USE DEF next
  <2>1. /\ DOMAIN conf = {"ok", "Logger", "TCPClient", "m_ConfPersons", "m_Threads",
                            "m_MsgMap", "m_Logic"}
        /\ conf.ok \in BOOLEAN /\ IsVector(conf.m_MsgMap)
    BY <1>2 DEF ReadUpTo
  <2>2. CASE ~conf.ok
    BY <2>1, <2>2 DEF Read
  <2>3. CASE conf.ok /\ Throws(element, Required)
    BY <2>1, <2>3 DEF Read
  <2>4. CASE conf.ok /\ ~Throws(element, Required) /\ element.tag = "MsgMap"
    <3>1. next = [conf EXCEPT !.m_MsgMap = @ \o ConfMsgMap(element)]
      BY <2>4 DEF Read
    <3>2. IsVector(conf.m_MsgMap \o ConfMsgMap(element))
      BY <1>5, <2>1, VectorConcat
    <3> HIDE DEF next
    <3> QED
      BY <2>1, <2>4, <3>1, <3>2
  <2>5. CASE conf.ok /\ ~Throws(element, Required) /\ element.tag = "Threads"
    <3>1. next = [conf EXCEPT !.m_Threads = @ \o ConfThreads(element)]
      BY <2>5 DEF Read
    <3> HIDE DEF next
    <3> QED
      BY <2>1, <2>5, <3>1
  <2>6. CASE conf.ok /\ ~Throws(element, Required) /\ element.tag = "Logic"
    <3>1. next = ReadLogic(conf)
      BY <2>6 DEF Read
    <3>2. /\ next.ok \in BOOLEAN /\ DOMAIN next = DOMAIN conf
          /\ next.m_Threads = conf.m_Threads /\ next.m_MsgMap = conf.m_MsgMap
      BY <2>1, <3>1 DEF ReadLogic
    <3> HIDE DEF next
    <3> QED
      BY <2>1, <2>6, <3>2
  <2>7. CASE /\ conf.ok /\ ~Throws(element, Required)
             /\ element.tag \notin {"MsgMap", "Threads", "Logic"}
    <3>1. /\ next.ok = conf.ok /\ DOMAIN next = DOMAIN conf
          /\ next.m_Threads = conf.m_Threads /\ next.m_MsgMap = conf.m_MsgMap
      BY <2>1, <2>7 DEF Read
    <3> HIDE DEF next
    <3> QED
      BY <2>1, <2>7, <3>1
  <2> QED
    BY <2>1, <2>2, <2>3, <2>4, <2>5, <2>6, <2>7
<1> QED
  BY <1>6, <1>7, <1>8, <1>9

(* At the end of the file, or of what could be read of it.                   *)
LEMMA ConfigRead == ReadUpTo(Config, Len(Document))
<1>1. PICK f :
        /\ Config = f[Len(Document)]
        /\ f = [i \in 0 .. Len(Document) |->
                  IF i = 0 THEN EmptyConfig ELSE Read(f[i - 1], Document[i])]
  BY ReadInOrder
<1> DEFINE T == {n \in Nat : n <= Len(Document) => ReadUpTo(f[n], n)}
<1>2. 0 \in T
  <2>1. f[0] = EmptyConfig
    BY <1>1, DocumentAssumption
  <2>2. IsVector(<<>>)
    <3>1. <<>> \in Seq({})
      OBVIOUS
    <3> QED
      BY <3>1 DEF IsVector
  <2>3. ReadUpTo(EmptyConfig, 0)
    BY <2>2 DEF ReadUpTo, EmptyConfig
  <2> QED
    BY <2>1, <2>3
<1>3. ASSUME NEW n \in Nat, n \in T PROVE n + 1 \in T
  <2> SUFFICES ASSUME n + 1 <= Len(Document) PROVE ReadUpTo(f[n + 1], n + 1)
    OBVIOUS
  <2>1. n + 1 \in 0 .. Len(Document) /\ n + 1 \in DOMAIN Document /\ (n + 1) - 1 = n
        /\ n + 1 # 0 /\ n <= Len(Document)
    BY DocumentAssumption
  <2>2. f[n + 1] = Read(f[n], Document[n + 1])
    BY <1>1, <2>1
  <2>3. ReadUpTo(f[n], n)
    BY <1>3, <2>1
  <2> QED
    BY <2>1, <2>2, <2>3, ReadOne
<1> HIDE DEF T
<1>4. Len(Document) \in T
  BY <1>2, <1>3, Induction, DocumentAssumption
<1> QED
  BY <1>1, <1>4, DocumentAssumption DEF T

-----------------------------------------------------------------------------
(* ConfigureSystem *)

(* The threads are those of Generated that are listed, each once.            *)
LEMMA ThreadsGenerated ==
    /\ Threads \in Seq(ToSet(Threads))
    /\ IsInjective(Threads)
    /\ ToSet(Threads) = {id \in ToSet(Generated) : Listed(id) # {}}
<1> DEFINE b == "BLUETOOTHMANAGER"
           d == "TELLDUSMANAGER"
           c == "TCPMANAGER"
           S == {b, d, c}
           x == GenerateThread(b, ListedIds)
           y == GenerateThread(d, ListedIds)
           z == GenerateThread(c, ListedIds)
<1>1. ToSet(Generated) = S
  <2>1. DOMAIN Generated = 1 .. 3 /\ Generated[1] = b /\ Generated[2] = d /\ Generated[3] = c
    BY DEF Generated
  <2> QED
    BY <2>1 DEF ToSet
<1>0. ASSUME NEW id PROVE id \in ListedIds <=> Listed(id) # {}
  BY DEF ListedIds, Listed, ToSet
<1>2. ASSUME NEW id \in S
      PROVE  /\ GenerateThread(id, ListedIds) \in Seq(S)
             /\ \/ Listed(id) = {} /\ Len(GenerateThread(id, ListedIds)) = 0
                \/ /\ Listed(id) # {} /\ Len(GenerateThread(id, ListedIds)) = 1
                   /\ GenerateThread(id, ListedIds)[1] = id
  <2>1. CASE Listed(id) = {}
    <3>1. GenerateThread(id, ListedIds) = <<>> /\ <<>> \in Seq(S) /\ Len(<<>>) = 0
      BY <1>0, <2>1 DEF GenerateThread
    <3> QED
      BY <2>1, <3>1
  <2>2. CASE Listed(id) # {}
    <3>1. /\ GenerateThread(id, ListedIds) = <<id>> /\ <<id>> \in Seq(S)
          /\ Len(<<id>>) = 1 /\ <<id>>[1] = id
      BY <1>0, <2>2 DEF GenerateThread
    <3> QED
      BY <2>2, <3>1
  <2> QED
    BY <2>1, <2>2
<1> HIDE DEF S, x, y, z
<1>3. x \in Seq(S) /\ y \in Seq(S) /\ z \in Seq(S)
  BY <1>2 DEF S, x, y, z
<1>4. /\ Threads \in Seq(S) /\ Len(Threads) = Len(x) + Len(y) + Len(z)
      /\ \A i \in 1 .. Len(x) + Len(y) + Len(z) :
             Threads[i] = IF i <= Len(x) THEN x[i]
                          ELSE IF i <= Len(x) + Len(y) THEN y[i - Len(x)]
                          ELSE z[i - Len(x) - Len(y)]
  BY <1>3, ConcatThree DEF Threads, InMapOrder, x, y, z
<1>5. /\ \/ Len(x) = 0 /\ Listed(b) = {}
         \/ Len(x) = 1 /\ Listed(b) # {} /\ x[1] = b
      /\ \/ Len(y) = 0 /\ Listed(d) = {}
         \/ Len(y) = 1 /\ Listed(d) # {} /\ y[1] = d
      /\ \/ Len(z) = 0 /\ Listed(c) = {}
         \/ Len(z) = 1 /\ Listed(c) # {} /\ z[1] = c
  BY <1>2 DEF S, x, y, z
<1>6. DOMAIN Threads = 1 .. Len(Threads) /\ Len(Threads) \in 0 .. 3
  BY <1>4, <1>5, LenProperties
<1> HIDE DEF Threads
<1>7. ASSUME NEW i \in 1 .. Len(Threads)
      PROVE  \/ Threads[i] = b /\ i = 1 /\ Len(x) = 1 /\ Listed(b) # {}
             \/ Threads[i] = d /\ i = 1 + Len(x) /\ Len(y) = 1 /\ Listed(d) # {}
             \/ Threads[i] = c /\ i = 1 + Len(x) + Len(y) /\ Len(z) = 1 /\ Listed(c) # {}
  <2>1. CASE i <= Len(x)
    <3>1. i = 1 /\ Threads[i] = x[1]
      BY <1>4, <1>5, <2>1
    <3> QED
      BY <1>5, <2>1, <3>1
  <2>2. CASE ~(i <= Len(x)) /\ i <= Len(x) + Len(y)
    <3>1. i = 1 + Len(x) /\ Len(y) = 1 /\ i - Len(x) = 1
      <4> DEFINE lx == Len(x)
                 ly == Len(y)
      <4>1. i \in Int /\ i >= 1 /\ lx \in {0, 1} /\ ly \in {0, 1}
        <5>1. lx \in {0, 1}
          BY <1>5
        <5>2. ly \in {0, 1}
          BY <1>5
        <5> QED
          BY <1>6, <5>1, <5>2
      <4>2. ~(i <= lx) /\ i <= lx + ly
        BY <2>2
      <4> HIDE DEF lx, ly
      <4>3. i = 1 + lx /\ ly = 1 /\ i - lx = 1
        BY <4>1, <4>2
      <4> QED
        BY <4>3 DEF lx, ly
    <3>2. Threads[i] = y[1]
      BY <1>4, <2>2, <3>1
    <3> QED
      BY <1>5, <3>1, <3>2
  <2>3. CASE ~(i <= Len(x)) /\ ~(i <= Len(x) + Len(y))
    <3>1. i = 1 + Len(x) + Len(y) /\ Len(z) = 1 /\ i - Len(x) - Len(y) = 1
      BY <1>4, <1>5, <2>3
    <3>2. Threads[i] = z[1]
      BY <1>4, <2>3, <3>1
    <3> QED
      BY <1>5, <3>1, <3>2
  <2> QED
    BY <2>1, <2>2, <2>3
<1>8. /\ Listed(b) # {} => 1 \in 1 .. Len(Threads) /\ Threads[1] = b
      /\ Listed(d) # {} => 1 + Len(x) \in 1 .. Len(Threads) /\ Threads[1 + Len(x)] = d
      /\ Listed(c) # {} => 1 + Len(x) + Len(y) \in 1 .. Len(Threads)
                           /\ Threads[1 + Len(x) + Len(y)] = c
  <2>1. ASSUME Listed(b) # {} PROVE 1 \in 1 .. Len(Threads) /\ Threads[1] = b
    BY <1>4, <1>5, <2>1
  <2>2. ASSUME Listed(d) # {}
        PROVE  1 + Len(x) \in 1 .. Len(Threads) /\ Threads[1 + Len(x)] = d
    <3>1. /\ 1 + Len(x) \in 1 .. Len(Threads) /\ ~(1 + Len(x) <= Len(x))
          /\ 1 + Len(x) <= Len(x) + Len(y) /\ (1 + Len(x)) - Len(x) = 1
      BY <1>4, <1>5, <2>2
    <3> QED
      BY <1>4, <1>5, <2>2, <3>1
  <2>3. ASSUME Listed(c) # {}
        PROVE  /\ 1 + Len(x) + Len(y) \in 1 .. Len(Threads)
               /\ Threads[1 + Len(x) + Len(y)] = c
    <3> DEFINE k == 1 + Len(x) + Len(y)
    <3>1. /\ k \in 1 .. Len(Threads) /\ ~(k <= Len(x))
          /\ ~(k <= Len(x) + Len(y)) /\ k - Len(x) - Len(y) = 1
      BY <1>4, <1>5, <2>3
    <3>2. Threads[k] = z[1]
      <4> HIDE DEF k
      <4> QED
        BY <1>4, <3>1
    <3> QED
      BY <1>5, <2>3, <3>1, <3>2
  <2> QED
    BY <2>1, <2>2, <2>3
<1>9. ToSet(Threads) = {Threads[i] : i \in 1 .. Len(Threads)}
  BY <1>6 DEF ToSet
<1>10. ToSet(Threads) = {id \in ToSet(Generated) : Listed(id) # {}}
  BY <1>1, <1>7, <1>8, <1>9 DEF S
<1>11. Threads \in Seq(ToSet(Threads))
  <2>1. Threads \in [1 .. Len(Threads) -> ToSet(Threads)]
    <3>1. Threads = [i \in 1 .. Len(Threads) |-> Threads[i]]
      BY <1>4, LenProperties
    <3> QED
      BY <1>9, <3>1
  <2> QED
    BY <1>6, <2>1, FunctionIsSeq
<1>12. ASSUME NEW i \in 1 .. Len(Threads), NEW j \in 1 .. Len(Threads),
              Threads[i] = Threads[j]
       PROVE  i = j
  BY <1>7, <1>12
<1> QED
  BY <1>6, <1>10, <1>11, <1>12 DEF IsInjective

(* A file that was read to its end gives every thread that it asks for.      *)
THEOREM WantedAreGenerated == Config.ok => Wanted \subseteq ToSet(Threads)
<1> SUFFICES ASSUME Config.ok, NEW t \in Wanted PROVE t \in ToSet(Threads)
  OBVIOUS
<1>1. PICK i \in DOMAIN Document :
        LET ids == Numbered(Document[i], "ThreadID")
        IN  /\ Document[i].tag = "Threads"
            /\ \E n \in DOMAIN ids : ids[n] = t /\ 1 .. n \subseteq DOMAIN ids
  BY DEF Wanted
<1> DEFINE ids == Numbered(Document[i], "ThreadID")
<1>2. PICK n \in DOMAIN ids : ids[n] = t /\ 1 .. n \subseteq DOMAIN ids
  BY <1>1
<1>3. i \in Nat \ {0} /\ i <= Len(Document) /\ i \in 1 .. Len(Document)
  BY <1>1, DocumentAssumption
<1>4. n \in Nat \ {0}
  <2>1. \A Str \in DOMAIN Document[i].numbered :
            DOMAIN Document[i].numbered[Str] \subseteq Nat \ {0}
    BY <1>1, DocumentAssumption
  <2> QED
    BY <2>1, <1>2 DEF Numbered
<1> HIDE DEF ids
<1>5. PICK m \in Nat : /\ GetAllSubKeysOf(Document[i], "ThreadID") = [k \in 1 .. m |-> ids[k]]
                      /\ \A k \in Nat : 1 .. k \subseteq DOMAIN ids => k <= m
  BY <1>1, SubKeys DEF ids
<1>6. n \in 1 .. m
  BY <1>2, <1>4, <1>5
<1>7. n \in DOMAIN GetAllSubKeysOf(Document[i], "ThreadID")
      /\ GetAllSubKeysOf(Document[i], "ThreadID")[n] = t
  BY <1>2, <1>5, <1>6
<1>8. \E k \in DOMAIN Config.m_Threads : Config.m_Threads[k].ThreadID = t
  <2>1. ReadUpTo(Config, Len(Document))
    BY ConfigRead
  <2> QED
    BY <1>1, <1>3, <1>7, <2>1 DEF ReadUpTo
<1>9. Listed(t) # {}
  BY <1>8 DEF Listed
<1> QED
  BY <1>9, ThreadsGenerated DEF Wanted

=============================================================================
