--------------------------- MODULE SequenceLemmas ---------------------------
(***************************************************************************)
(* Lemmas about numbers and sequences that the theorem modules of the      *)
(* components share and that the library does not state.                   *)
(***************************************************************************)
EXTENDS Naturals, Sequences, SequenceTheorems, WellFoundedInduction, TLAPS

(* A set of natural numbers has a least element.                             *)
LEMMA LeastElement ==
    ASSUME NEW T, T \subseteq Nat, T # {}
    PROVE  \E x \in T : \A y \in T : x <= y
<1> DEFINE R == {ss \in Nat \X Nat : ss[1] < ss[2]}
<1>1. IsWellFoundedOn(R, Nat)
  BY NatLessThanWellFounded DEF OpToRel
<1> HIDE DEF R
<1>2. PICK x \in T : \A y \in T : <<y, x>> \notin R
  BY <1>1, WFMin
<1>3. ASSUME NEW y \in T PROVE x <= y
  <2>1. <<y, x>> \in Nat \X Nat /\ <<y, x>>[1] = y /\ <<y, x>>[2] = x
    OBVIOUS
  <2>2. ~(y < x)
    BY <1>2, <2>1 DEF R
  <2> QED
    BY <2>1, <2>2
<1> QED
  BY <1>3

(* One that is bounded has a greatest element.                               *)
LEMMA GreatestElement ==
    ASSUME NEW n \in Nat, NEW T, T \subseteq 0 .. n, T # {}
    PROVE  \E x \in T : \A y \in T : y <= x
<1> DEFINE U == {n - x : x \in T}
<1>1. U \subseteq Nat /\ U # {}
  <2>1. \A x \in T : n - x \in Nat
    OBVIOUS
  <2> QED
    BY <2>1
<1> HIDE DEF U
<1>2. PICK u \in U : \A v \in U : u <= v
  BY <1>1, LeastElement
<1>3. PICK x \in T : u = n - x
  BY DEF U
<1>4. ASSUME NEW y \in T PROVE y <= x
  <2>1. n - y \in U
    BY DEF U
  <2>2. u <= n - y
    BY <1>2, <2>1
  <2> QED
    BY <1>3, <2>2
<1> QED
  BY <1>4

(* Induction, for the set of the numbers with a property.                    *)
LEMMA Induction ==
    ASSUME NEW T, 0 \in T, \A n \in Nat : n \in T => n + 1 \in T
    PROVE  Nat \subseteq T
<1> SUFFICES ASSUME Nat \ T # {} PROVE FALSE
  OBVIOUS
<1>1. PICK x \in Nat \ T : \A y \in Nat \ T : x <= y
  BY LeastElement
<1>2. x # 0 /\ x - 1 \in Nat /\ (x - 1) + 1 = x /\ ~(x <= x - 1)
  BY <1>1
<1>3. x - 1 \in T
  BY <1>1, <1>2
<1> QED
  BY <1>1, <1>2, <1>3

(* A sequence over a set is one over every larger set.                       *)
LEMMA SeqMonotone == ASSUME NEW S, NEW T, S \subseteq T, NEW s \in Seq(S) PROVE s \in Seq(T)
<1>1. Len(s) \in Nat /\ s \in [1 .. Len(s) -> S]
  BY LenProperties
<1>2. s \in [1 .. Len(s) -> T]
  BY <1>1
<1> QED
  BY <1>1, <1>2, SeqDef

(* A function on the first natural numbers is a sequence.                    *)
LEMMA FunctionIsSeq ==
    ASSUME NEW S, NEW n \in Nat, NEW f \in [1 .. n -> S]
    PROVE  f \in Seq(S) /\ Len(f) = n
<1>1. \A k \in Nat : [1 .. k -> S] \subseteq Seq(S)
  BY SeqDef
<1>2. f \in Seq(S)
  BY <1>1
<1>3. Len(f) \in Nat /\ DOMAIN f = 1 .. Len(f) /\ DOMAIN f = 1 .. n
  BY <1>2, LenProperties
<1> QED
  BY <1>2, <1>3

(* The parts of three sequences in a row.                                    *)
LEMMA ConcatThree ==
    ASSUME NEW S, NEW a \in Seq(S), NEW b \in Seq(S), NEW c \in Seq(S)
    PROVE  /\ a \o b \o c \in Seq(S)
           /\ Len(a \o b \o c) = Len(a) + Len(b) + Len(c)
           /\ \A i \in 1 .. Len(a) + Len(b) + Len(c) :
                  (a \o b \o c)[i] = IF i <= Len(a) THEN a[i]
                                     ELSE IF i <= Len(a) + Len(b) THEN b[i - Len(a)]
                                     ELSE c[i - Len(a) - Len(b)]
<1>1. /\ a \o b \in Seq(S) /\ Len(a \o b) = Len(a) + Len(b)
      /\ \A i \in 1 .. Len(a) + Len(b) :
             (a \o b)[i] = IF i <= Len(a) THEN a[i] ELSE b[i - Len(a)]
  BY ConcatProperties
<1>2. /\ (a \o b) \o c \in Seq(S)
      /\ Len((a \o b) \o c) = Len(a \o b) + Len(c)
      /\ \A i \in 1 .. Len(a \o b) + Len(c) :
             ((a \o b) \o c)[i] = IF i <= Len(a \o b) THEN (a \o b)[i] ELSE c[i - Len(a \o b)]
  BY <1>1, ConcatProperties
<1>3. Len(a) \in Nat /\ Len(b) \in Nat /\ Len(c) \in Nat
  BY LenProperties
<1> QED
  BY <1>1, <1>2, <1>3

(* w is a, b and c in a row.                                                 *)
InARow(w, a, b, c) ==
    /\ Len(w) = Len(a) + Len(b) + Len(c)
    /\ \A i \in 1 .. Len(a) + Len(b) + Len(c) :
           w[i] = IF i <= Len(a) THEN a[i]
                  ELSE IF i <= Len(a) + Len(b) THEN b[i - Len(a)]
                  ELSE c[i - Len(a) - Len(b)]

(* The same of a sequence that has a name.                                   *)
LEMMA ConcatInARow ==
    ASSUME NEW S, NEW a \in Seq(S), NEW b \in Seq(S), NEW c \in Seq(S),
           NEW w, w = a \o b \o c
    PROVE  w \in Seq(S) /\ InARow(w, a, b, c)
  BY ConcatThree DEF InARow

(* The sequence s without its i-th element.                                  *)
Without(s, i) == [j \in 1 .. Len(s) - 1 |-> IF j < i THEN s[j] ELSE s[j + 1]]

(* A sequence is its head in front of its tail.                              *)
LEMMA HeadConcat ==
    ASSUME NEW S, NEW s \in Seq(S), s # <<>>
    PROVE  s = <<Head(s)>> \o Tail(s)
<1>1. Len(s) \in Nat \ {0} /\ 1 \in 1 .. Len(s)
  BY EmptySeq
<1>2. SubSeq(s, 1, Len(s)) = <<s[1]>> \o SubSeq(s, 2, Len(s))
  <2>1. SubSeq(s, 1, Len(s)) = <<s[1]>> \o SubSeq(s, 1 + 1, Len(s))
    BY <1>1, SubSeqRecursiveFirst
  <2> QED
    BY <2>1
<1>3. Head(s) = s[1]
  OBVIOUS
<1> QED
  BY <1>2, <1>3, SubSeqFull, TailIsSubSeq

(* What Head and Tail do to an element in front of a sequence.               *)
LEMMA ConsProperties ==
    ASSUME NEW S, NEW x \in S, NEW t \in Seq(S)
    PROVE  <<x>> \o t # <<>> /\ Head(<<x>> \o t) = x /\ Tail(<<x>> \o t) = t
<1>1. <<x>> \in Seq(S) /\ <<x>> # <<>>
  OBVIOUS
<1> DEFINE r == <<x>> \o t
<1>2. r \in Seq(S) /\ r # <<>>
  BY <1>1, ConcatProperties, ConcatSimplifications
<1>3. r[1] = x
  <2>1. Len(<<x>>) = 1 /\ Len(t) \in Nat
    OBVIOUS
  <2> QED
    BY <1>1, <2>1, ConcatProperties
<1> HIDE DEF r
<1>4. r = <<Head(r)>> \o Tail(r) /\ Head(r) = r[1]
  BY <1>2, HeadConcat
<1>5. Tail(r) \in Seq(S)
  BY <1>2, HeadTailProperties
<1>6. <<x>> \o t = <<x>> \o Tail(r)
  BY <1>3, <1>4 DEF r
<1>7. Tail(r) = t
  BY <1>1, <1>5, <1>6, ConcatSimplifications
<1> QED
  BY <1>2, <1>3, <1>4, <1>7 DEF r

(* What is left when the i-th element of a sequence is taken out.           *)
LEMMA WithoutProperties ==
    ASSUME NEW S, NEW s \in Seq(S), NEW i \in 1 .. Len(s)
    PROVE  /\ Without(s, i) \in Seq(S)
           /\ Len(Without(s, i)) = Len(s) - 1
           /\ \A j \in 1 .. Len(s) - 1 :
                  Without(s, i)[j] = IF j < i THEN s[j] ELSE s[j + 1]
<1>1. Len(s) \in Nat /\ Len(s) - 1 \in Nat /\ \A j \in 1 .. Len(s) : s[j] \in S
  BY LenProperties, ElementOfSeq
<1>2. Without(s, i) \in [1 .. Len(s) - 1 -> S]
  BY <1>1 DEF Without
<1>3. Without(s, i) \in Seq(S)
  <2>1. \A n \in Nat : [1 .. n -> S] \subseteq Seq(S)
    BY SeqDef
  <2> QED
    BY <1>1, <1>2, <2>1
<1>4. Len(Without(s, i)) = Len(s) - 1
  BY <1>1, <1>3, LenProperties DEF Without
<1> QED
  BY <1>1, <1>3, <1>4 DEF Without

(* Without takes out what stands between two sequences.                      *)
LEMMA WithoutMiddle ==
    ASSUME NEW S, NEW s \in Seq(S), NEW e \in Seq(S), NEW t \in Seq(S), Len(e) = 1
    PROVE  Without((s \o e) \o t, Len(s) + 1) = s \o t
<1> DEFINE a == (s \o e) \o t
           m == Len(s)
           n == Len(t)
           w == Without(a, m + 1)
           c == s \o t
<1>1. m \in Nat /\ n \in Nat
  OBVIOUS
<1>2. /\ a \in Seq(S) /\ Len(a) = m + 1 + n
      /\ \A i \in 1 .. m : a[i] = s[i]
      /\ \A i \in 1 .. n : a[m + 1 + i] = t[i]
  <2>0. /\ s \o e \in Seq(S) /\ Len(s \o e) = m + 1
        /\ \A i \in 1 .. m + 1 : (s \o e)[i] = IF i <= m THEN s[i] ELSE e[i - m]
    <3>1. /\ s \o e \in Seq(S) /\ Len(s \o e) = m + Len(e)
          /\ \A i \in 1 .. m + Len(e) : (s \o e)[i] = IF i <= m THEN s[i] ELSE e[i - m]
      BY ConcatProperties
    <3> HIDE DEF m
    <3> QED
      BY <3>1
  <2> HIDE DEF m, n
  <2>1. \A i \in 1 .. m : (s \o e)[i] = s[i]
    BY <1>1, <2>0
  <2>2. /\ a \in Seq(S) /\ Len(a) = m + 1 + n
        /\ \A i \in 1 .. m + 1 + n : a[i] = IF i <= m + 1 THEN (s \o e)[i] ELSE t[i - (m + 1)]
    BY <2>0, ConcatProperties DEF n
  <2> HIDE DEF a
  <2>3. ASSUME NEW i \in 1 .. m PROVE a[i] = s[i]
    <3>1. i \in 1 .. m + 1 + n /\ i <= m + 1
      BY <1>1
    <3> QED
      BY <2>1, <2>2, <3>1
  <2>4. ASSUME NEW i \in 1 .. n PROVE a[m + 1 + i] = t[i]
    <3>1. m + 1 + i \in 1 .. m + 1 + n /\ ~(m + 1 + i <= m + 1) /\ (m + 1 + i) - (m + 1) = i
      BY <1>1
    <3> QED
      BY <2>2, <3>1
  <2> QED
    BY <2>2, <2>3, <2>4
<1>3. /\ c \in Seq(S) /\ Len(c) = m + n
      /\ \A i \in 1 .. m : c[i] = s[i]
      /\ \A i \in 1 .. n : c[m + i] = t[i]
  <2>1. /\ c \in Seq(S) /\ Len(c) = m + n
        /\ \A i \in 1 .. m + n : c[i] = IF i <= m THEN s[i] ELSE t[i - m]
    BY ConcatProperties
  <2> HIDE DEF c, m, n
  <2>2. \A i \in 1 .. m : c[i] = s[i]
    BY <1>1, <2>1
  <2>3. ASSUME NEW i \in 1 .. n PROVE c[m + i] = t[i]
    <3>1. m + i \in 1 .. m + n /\ ~(m + i <= m) /\ (m + i) - m = i
      BY <1>1
    <3> QED
      BY <2>1, <3>1
  <2> QED
    BY <2>1, <2>2, <2>3
<1> HIDE DEF a, c, m, n
<1>4. /\ w \in Seq(S) /\ Len(w) = m + n
      /\ \A j \in 1 .. m + n : w[j] = IF j < m + 1 THEN a[j] ELSE a[j + 1]
  <2>1. m + 1 \in 1 .. Len(a) /\ Len(a) - 1 = m + n
    BY <1>1, <1>2
  <2> QED
    BY <1>2, <2>1, WithoutProperties
<1> HIDE DEF w
<1>5. ASSUME NEW j \in 1 .. m + n PROVE w[j] = c[j]
  <2>1. CASE j <= m
    BY <1>1, <1>2, <1>3, <1>4, <2>1
  <2>2. CASE j > m
    <3>1. PICK i \in 1 .. n : j = m + i
      <4>1. j - m \in 1 .. n /\ j = m + (j - m)
        BY <1>1, <2>2
      <4> QED
        BY <4>1
    <3>2. j + 1 = m + 1 + i /\ ~(j < m + 1)
      BY <1>1, <3>1
    <3> QED
      BY <1>2, <1>3, <1>4, <3>1, <3>2
  <2> QED
    BY <1>1, <2>1, <2>2
<1> QED
  BY <1>3, <1>4, <1>5, SeqEqual DEF w, a, m, c

=============================================================================
