---------------------------- MODULE QueueLemmas ----------------------------
(* What the queue operations of pcb.c do to a queue that holds each of its *)
(* elements once: insertProcQ appends, removeProcQ takes the head, outProcQ *)
(* takes one element out, and the clock tick joins two queues.             *)
EXTENDS Integers, SequencesExt, SequenceTheorems, WellFoundedInduction, TLAPS

\* Appending an element that is not in a queue.
LEMMA AppendToQueue ==
  ASSUME NEW S, NEW q \in Seq(S), NEW e \in S
  PROVE  /\ Append(q, e) \in Seq(S)
         /\ Range(Append(q, e)) = Range(q) \cup {e}
         /\ IsInjective(q) /\ e \notin Range(q) => IsInjective(Append(q, e))
<1>. DEFINE a == Append(q, e)
<1>1. a \in Seq(S) /\ Len(a) = Len(q) + 1 /\ a[Len(q) + 1] = e
      /\ \A i \in 1 .. Len(q) : a[i] = q[i]
  BY AppendProperties
<1>2. Range(a) = {a[i] : i \in 1 .. Len(a)} /\ Range(q) = {q[i] : i \in 1 .. Len(q)}
  BY <1>1, RangeEquality
<1>3. Len(q) \in Nat /\ DOMAIN q = 1 .. Len(q) /\ DOMAIN a = 1 .. Len(a)
  BY <1>1, LenProperties
<1>4. Range(a) = Range(q) \cup {e}
  BY <1>1, <1>2, <1>3
<1>5. IsInjective(q) /\ e \notin Range(q) => IsInjective(a)
  BY <1>1, <1>2, <1>3 DEF IsInjective
<1>. QED  BY <1>1, <1>4, <1>5

\* Taking the first element of a queue.
LEMMA TailOfQueue ==
  ASSUME NEW S, NEW q \in Seq(S), q # <<>>, IsInjective(q)
  PROVE  /\ Head(q) \in Range(q) /\ Tail(q) \in Seq(S)
         /\ Range(Tail(q)) = Range(q) \ {Head(q)}
         /\ IsInjective(Tail(q))
<1>. DEFINE t == Tail(q)
<1>1. /\ t \in Seq(S) /\ Len(t) = Len(q) - 1
      /\ \A i \in 1 .. Len(t) : t[i] = q[i + 1]
  BY HeadTailProperties
<1>2. Head(q) = q[1] /\ Len(q) \in Nat \ {0}
  BY EmptySeq, LenProperties
<1>3. DOMAIN q = 1 .. Len(q) /\ DOMAIN t = 1 .. Len(t)
  BY <1>1, LenProperties
<1>4. Range(t) = {t[i] : i \in 1 .. Len(t)} /\ Range(q) = {q[i] : i \in 1 .. Len(q)}
  BY <1>1, RangeEquality
<1>5. Head(q) \in Range(q)
  BY <1>2, <1>4
<1>6. IsInjective(t)
  BY <1>1, <1>2, <1>3 DEF IsInjective
<1>7. Range(t) \subseteq Range(q) \ {Head(q)}
  BY <1>1, <1>2, <1>3, <1>4 DEF IsInjective
<1>8. ASSUME NEW x \in Range(q) \ {Head(q)} PROVE x \in Range(t)
  <2>1. PICK i \in 1 .. Len(q) : q[i] = x
    BY <1>4
  <2>2. i - 1 \in 1 .. Len(t) /\ t[i - 1] = x
    BY <2>1, <1>1, <1>2
  <2>. QED  BY <2>2, <1>4
<1>. QED  BY <1>1, <1>5, <1>6, <1>7, <1>8

\* Two queues with no common element, one after the other.
LEMMA ConcatOfQueues ==
  ASSUME NEW S, NEW q \in Seq(S), NEW r \in Seq(S),
         IsInjective(q), IsInjective(r), Range(q) \cap Range(r) = {}
  PROVE  /\ q \o r \in Seq(S)
         /\ Range(q \o r) = Range(q) \cup Range(r)
         /\ IsInjective(q \o r)
<1>. DEFINE s == q \o r
<1>1. /\ s \in Seq(S) /\ Len(s) = Len(q) + Len(r)
      /\ \A i \in 1 .. Len(q) + Len(r) :
           s[i] = IF i <= Len(q) THEN q[i] ELSE r[i - Len(q)]
  BY ConcatProperties
<1>2. /\ DOMAIN q = 1 .. Len(q) /\ DOMAIN r = 1 .. Len(r) /\ DOMAIN s = 1 .. Len(s)
      /\ Len(q) \in Nat /\ Len(r) \in Nat
  BY <1>1, LenProperties
<1>3. Range(s) = Range(q) \cup Range(r)
  BY RangeConcatenation
<1>4. /\ \A i \in 1 .. Len(q) : q[i] \in Range(q)
      /\ \A i \in 1 .. Len(r) : r[i] \in Range(r)
  BY RangeEquality
<1>5. ASSUME NEW i \in DOMAIN s, NEW j \in DOMAIN s, s[i] = s[j] PROVE i = j
  <2>1. CASE i <= Len(q) /\ j <= Len(q)
    BY <2>1, <1>1, <1>2, <1>5 DEF IsInjective
  <2>2. CASE ~(i <= Len(q)) /\ ~(j <= Len(q))
    <3>1. i - Len(q) \in DOMAIN r /\ j - Len(q) \in DOMAIN r
      BY <2>2, <1>1, <1>2
    <3>2. r[i - Len(q)] = r[j - Len(q)]
      BY <2>2, <1>1, <1>2, <1>5
    <3>3. i - Len(q) = j - Len(q)
      BY <3>1, <3>2 DEF IsInjective
    <3>. QED  BY <3>3, <1>1, <1>2
  <2>3. CASE i <= Len(q) /\ ~(j <= Len(q))
    <3>1. s[i] \in Range(q) /\ s[j] \in Range(r)
      BY <2>3, <1>1, <1>2, <1>4
    <3>. QED  BY <3>1, <1>5
  <2>4. CASE ~(i <= Len(q)) /\ j <= Len(q)
    <3>1. s[i] \in Range(r) /\ s[j] \in Range(q)
      BY <2>4, <1>1, <1>2, <1>4
    <3>. QED  BY <3>1, <1>5
  <2>. QED  BY <2>1, <2>2, <2>3, <2>4
<1>6. IsInjective(s)
  BY <1>5 DEF IsInjective
<1>. QED  BY <1>1, <1>3, <1>6

\* What is left when an element that occurs once is taken out, place by place.
LEMMA RemoveAtPlace ==
  ASSUME NEW S, NEW q \in Seq(S), NEW n \in 1 .. Len(q),
         \A i \in 1 .. Len(q) : q[i] = q[n] => i = n
  PROVE  /\ RemoveFirst(q, q[n]) \in Seq(S)
         /\ Len(RemoveFirst(q, q[n])) = Len(q) - 1
         /\ \A i \in 1 .. Len(q) - 1 :
              RemoveFirst(q, q[n])[i] = (IF i < n THEN q[i] ELSE q[i + 1])
<1>1. Len(q) \in Nat /\ \A i \in 1 .. Len(q) : q[i] \in S
  BY LenProperties, ElementOfSeq
<1>2. {i \in 1 .. Len(q) : q[i] = q[n]} = {n}
  OBVIOUS
<1>3. Min({n}) = n
  BY DEF Min
<1>. DEFINE a == SubSeq(q, 1, n - 1)
            b == SubSeq(q, n + 1, Len(q))
<1>4. RemoveFirst(q, q[n]) = a \o b
  BY <1>2, <1>3 DEF RemoveFirst, RemoveAt, SelectInSeq
<1>5. /\ a \in Seq(S) /\ Len(a) = n - 1
      /\ \A i \in 1 .. n - 1 : a[i] = q[i]
  <2>1. \A i \in 1 .. n - 1 : q[i] \in S
    BY <1>1
  <2>2. /\ a \in Seq(S)
        /\ Len(a) = IF 1 <= n - 1 THEN n - 1 - 1 + 1 ELSE 0
        /\ \A i \in 1 .. n - 1 - 1 + 1 : a[i] = q[1 + i - 1]
    BY <1>1, <2>1, SubSeqProperties, n - 1 \in Int
  <2>. QED  BY <1>1, <2>2
<1>6. /\ b \in Seq(S) /\ Len(b) = Len(q) - n
      /\ \A i \in 1 .. Len(q) - n : b[i] = q[n + i]
  <2>1. \A i \in n + 1 .. Len(q) : q[i] \in S
    BY <1>1
  <2>2. /\ b \in Seq(S)
        /\ Len(b) = IF n + 1 <= Len(q) THEN Len(q) - (n + 1) + 1 ELSE 0
        /\ \A i \in 1 .. Len(q) - (n + 1) + 1 : b[i] = q[n + 1 + i - 1]
    BY <1>1, <2>1, SubSeqProperties, n + 1 \in Int, Len(q) \in Int
  <2>3. Len(b) = Len(q) - n
    <3>. HIDE DEF b
    <3>. QED  BY <1>1, <2>2
  <2>4. ASSUME NEW i \in 1 .. Len(q) - n PROVE b[i] = q[n + i]
    <3>1. i \in 1 .. Len(q) - (n + 1) + 1 /\ n + 1 + i - 1 = n + i
      BY <1>1
    <3>. QED  BY <2>2, <3>1
  <2>. QED  BY <2>2, <2>3, <2>4
<1>. HIDE DEF a, b
<1>7. /\ a \o b \in Seq(S) /\ Len(a \o b) = Len(a) + Len(b)
      /\ \A i \in 1 .. Len(a) + Len(b) :
           (a \o b)[i] = IF i <= Len(a) THEN a[i] ELSE b[i - Len(a)]
  BY <1>5, <1>6, ConcatProperties
<1>8. ASSUME NEW i \in 1 .. Len(q) - 1
      PROVE  (a \o b)[i] = (IF i < n THEN q[i] ELSE q[i + 1])
  <2>1. CASE i < n
    BY <1>1, <1>5, <1>6, <1>7, <2>1
  <2>2. CASE ~(i < n)
    <3>1. i - (n - 1) \in 1 .. Len(q) - n /\ n + (i - (n - 1)) = i + 1 /\ ~(i <= n - 1)
      BY <1>1, <2>2
    <3>2. (a \o b)[i] = b[i - (n - 1)]
      BY <1>1, <1>5, <1>6, <1>7, <3>1
    <3>. QED  BY <1>6, <2>2, <3>1, <3>2
  <2>. QED  BY <2>1, <2>2
<1>9. Len(a \o b) = Len(q) - 1
  BY <1>1, <1>5, <1>6, <1>7
<1>. QED  BY <1>4, <1>7, <1>8, <1>9


\* A nonempty set of natural numbers has a least element: a first step at
\* which something goes wrong.
LEMMA LeastNumber ==
  ASSUME NEW T, T \in SUBSET Nat, T # {}
  PROVE  \E n \in T : \A m \in T : n <= m
<1>. DEFINE Less == {ss \in Nat \X Nat : ss[1] < ss[2]}
<1>1. IsWellFoundedOn(Less, Nat)
  BY NatLessThanWellFounded DEF OpToRel
<1>2. \E n \in T : \A m \in T : <<m, n>> \notin Less
  <2>. HIDE DEF Less
  <2>. QED  BY <1>1, WFMin
<1>3. ASSUME NEW n \in T, \A m \in T : <<m, n>> \notin Less, NEW m \in T
      PROVE  n <= m
  <2>1. m \in Nat /\ n \in Nat /\ <<m, n>> \notin Less
    BY <1>3
  <2>2. <<m, n>> \in Nat \X Nat /\ <<m, n>>[1] = m /\ <<m, n>>[2] = n
    BY <2>1
  <2>3. ~(m < n)
    BY <2>1, <2>2
  <2>. QED  BY <2>1, <2>3
<1>. QED  BY <1>2, <1>3

\* Taking out any element, however often it occurs, leaves a queue.
LEMMA RemoveKeepsType ==
  ASSUME NEW S, NEW q \in Seq(S), NEW e PROVE RemoveFirst(q, e) \in Seq(S)
<1>1. Len(q) \in Nat /\ \A i \in 1 .. Len(q) : q[i] \in S
  BY LenProperties, ElementOfSeq
<1>2. CASE ~\E i \in 1 .. Len(q) : q[i] = e
  BY <1>2 DEF RemoveFirst
<1>3. CASE \E i \in 1 .. Len(q) : q[i] = e
  <2>. DEFINE I == {i \in 1 .. Len(q) : q[i] = e}
              n == Min(I)
  <2>1. I # {} /\ RemoveFirst(q, e) = RemoveAt(q, n)
    BY <1>3 DEF RemoveFirst, SelectInSeq
  <2>2. n \in I
    <3>1. I \subseteq Nat /\ I # {}
      BY <1>1, <2>1
    <3>2. \E m \in I : \A i \in I : m <= i
      BY <3>1, LeastNumber
    <3>. QED  BY <3>2 DEF Min
  <2>3. n \in 1 .. Len(q)
    BY <2>2
  <2>. HIDE DEF n
  <2>4. SubSeq(q, 1, n - 1) \in Seq(S) /\ SubSeq(q, n + 1, Len(q)) \in Seq(S)
    BY <1>1, <2>3, SubSeqProperties
  <2>. QED  BY <2>1, <2>4, ConcatProperties DEF RemoveAt
<1>. QED  BY <1>2, <1>3

\* outProcQ and outBlocked: the element leaves, the others stay.
LEMMA RemoveFromQueue ==
  ASSUME NEW S, NEW q \in Seq(S), NEW e, IsInjective(q)
  PROVE  /\ RemoveFirst(q, e) \in Seq(S)
         /\ Range(RemoveFirst(q, e)) = Range(q) \ {e}
         /\ IsInjective(RemoveFirst(q, e))
<1>1. /\ DOMAIN q = 1 .. Len(q) /\ Len(q) \in Nat
      /\ Range(q) = {q[i] : i \in 1 .. Len(q)}
  BY LenProperties, RangeEquality
<1>2. CASE ~\E i \in 1 .. Len(q) : q[i] = e
  BY <1>1, <1>2 DEF RemoveFirst
<1>3. CASE \E i \in 1 .. Len(q) : q[i] = e
  <2>1. PICK n \in 1 .. Len(q) : q[n] = e
    BY <1>3
  <2>2. \A i, j \in 1 .. Len(q) : q[i] = q[j] => i = j
    BY <1>1 DEF IsInjective
  <2>. DEFINE r == RemoveFirst(q, q[n])
  <2>3. /\ r \in Seq(S) /\ Len(r) = Len(q) - 1
        /\ \A i \in 1 .. Len(q) - 1 : r[i] = (IF i < n THEN q[i] ELSE q[i + 1])
    BY <2>2, RemoveAtPlace
  <2>. HIDE DEF r
  <2>4. DOMAIN r = 1 .. Len(q) - 1 /\ Range(r) = {r[i] : i \in 1 .. Len(q) - 1}
    BY <2>3, LenProperties, RangeEquality
  <2>5. ASSUME NEW i \in 1 .. Len(q) - 1 PROVE r[i] \in Range(q) \ {e}
    <3>1. PICK j \in 1 .. Len(q) : j # n /\ r[i] = q[j]
      BY <1>1, <2>3
    <3>. QED  BY <1>1, <2>1, <2>2, <3>1
  <2>6. ASSUME NEW x \in Range(q) \ {e} PROVE x \in Range(r)
    <3>1. PICK j \in 1 .. Len(q) : q[j] = x /\ j # n
      BY <1>1, <2>1
    <3>2. CASE j < n
      <4>1. j \in 1 .. Len(q) - 1 /\ r[j] = q[j]
        BY <1>1, <2>3, <3>2
      <4>. QED  BY <2>4, <3>1, <4>1
    <3>3. CASE j > n
      <4>1. j - 1 \in 1 .. Len(q) - 1 /\ r[j - 1] = q[j]
        BY <1>1, <2>3, <3>3
      <4>. QED  BY <2>4, <3>1, <4>1
    <3>. QED  BY <1>1, <3>1, <3>2, <3>3
  <2>7. ASSUME NEW i \in 1 .. Len(q) - 1, NEW j \in 1 .. Len(q) - 1, r[i] = r[j] PROVE i = j
    <3>1. /\ r[i] = q[IF i < n THEN i ELSE i + 1] /\ r[j] = q[IF j < n THEN j ELSE j + 1]
          /\ (IF i < n THEN i ELSE i + 1) \in 1 .. Len(q)
          /\ (IF j < n THEN j ELSE j + 1) \in 1 .. Len(q)
      BY <1>1, <2>3
    <3>2. (IF i < n THEN i ELSE i + 1) = (IF j < n THEN j ELSE j + 1)
      BY <2>2, <2>7, <3>1
    <3>. QED  BY <1>1, <3>2
  <2>8. IsInjective(r)
    BY <2>4, <2>7 DEF IsInjective
  <2>9. r = RemoveFirst(q, e)
    BY <2>1 DEF r
  <2>. QED  BY <2>3, <2>4, <2>5, <2>6, <2>8, <2>9
<1>. QED  BY <1>2, <1>3
=============================================================================
