----------------------------- MODULE ListProofs -----------------------------
(* The lists of listx.h do to their cells what sequences do.               *)
EXTENDS Lists, QueueLemmas, FiniteSetTheorems

-----------------------------------------------------------------------------
(* Following the links of a heap from one of its cells. *)

\* The first steps of a walk: a function on 0 .. n.
Steps(C, next, head, n) ==
  {f \in [0 .. n -> C] : f[0] = head /\ \A i \in 1 .. n : f[i] = next[f[i - 1]]}

\* A walk can be as long as one likes.
LEMMA StepsExist ==
  ASSUME NEW C, NEW next \in [C -> C], NEW head \in C, NEW n \in Nat
  PROVE  Steps(C, next, head, n) # {}
<1>. DEFINE Bad == {k \in Nat : Steps(C, next, head, k) = {}}
<1>1. SUFFICES ASSUME Bad # {} PROVE FALSE
  OBVIOUS
<1>2. PICK k \in Bad : \A m \in Bad : k <= m
  <2>. HIDE DEF Bad
  <2>1. Bad \in SUBSET Nat
    BY DEF Bad
  <2>. QED  BY <1>1, <2>1, LeastNumber
<1>3. CASE k = 0
  <2>. DEFINE f == [i \in 0 .. 0 |-> head]
  <2>1. f \in [0 .. 0 -> C] /\ f[0] = head
    OBVIOUS
  <2>2. f \in Steps(C, next, head, 0)
    BY <2>1 DEF Steps
  <2>. QED  BY <1>3, <2>2
<1>4. CASE k # 0
  <2>1. k - 1 \in Nat /\ k - 1 \notin Bad
    BY <1>2, <1>4
  <2>2. PICK f \in Steps(C, next, head, k - 1) : TRUE
    BY <2>1
  <2>. DEFINE g == [i \in 0 .. k |-> IF i = k THEN next[f[k - 1]] ELSE f[i]]
  <2>3. /\ f \in [0 .. k - 1 -> C] /\ f[0] = head
        /\ \A i \in 1 .. k - 1 : f[i] = next[f[i - 1]]
    BY <2>2 DEF Steps
  <2>4. k \in Nat \ {0}
    BY <1>4
  <2>5. g \in [0 .. k -> C]
    BY <2>3, <2>4
  <2>6. g[0] = head
    BY <2>3, <2>4
  <2>7. ASSUME NEW i \in 1 .. k PROVE g[i] = next[g[i - 1]]
    <3>1. CASE i = k
      BY <2>3, <2>4, <3>1
    <3>2. CASE i # k
      <4>1. i \in 1 .. k - 1 /\ g[i] = f[i] /\ g[i - 1] = f[i - 1]
        BY <2>4, <2>7, <3>2
      <4>. QED  BY <2>3, <4>1
    <3>. QED  BY <3>1, <3>2
  <2>8. g \in Steps(C, next, head, k)
    <3>. HIDE DEF g
    <3>. QED  BY <2>5, <2>6, <2>7 DEF Steps
  <2>. QED  BY <1>2, <2>8
<1>. QED  BY <1>3, <1>4

\* Two walks from a cell agree as far as they both go.
LEMMA StepsAgree ==
  ASSUME NEW C, NEW next \in [C -> C], NEW head \in C, NEW n \in Nat, NEW m \in Nat,
         NEW f \in Steps(C, next, head, n), NEW g \in Steps(C, next, head, m),
         NEW j \in Nat, j <= n, j <= m
  PROVE  f[j] = g[j]
<1>. DEFINE Bad == {k \in Nat : k <= n /\ k <= m /\ f[k] # g[k]}
<1>1. SUFFICES ASSUME Bad # {} PROVE FALSE
  OBVIOUS
<1>2. PICK k \in Bad : \A i \in Bad : k <= i
  <2>. HIDE DEF Bad
  <2>1. Bad \in SUBSET Nat
    BY DEF Bad
  <2>. QED  BY <1>1, <2>1, LeastNumber
<1>3. f[0] = head /\ \A i \in 1 .. n : f[i] = next[f[i - 1]]
  BY DEF Steps
<1>4. g[0] = head /\ \A i \in 1 .. m : g[i] = next[g[i - 1]]
  BY DEF Steps
<1>5. k \in Nat \ {0} /\ k <= n /\ k <= m /\ f[k] # g[k]
  BY <1>2, <1>3, <1>4
<1>6. k - 1 \in Nat /\ k - 1 \notin Bad
  BY <1>2, <1>5
<1>7. f[k - 1] = g[k - 1]
  BY <1>5, <1>6
<1>8. k \in 1 .. n /\ k \in 1 .. m
  BY <1>5
<1>. QED  BY <1>3, <1>4, <1>5, <1>7, <1>8

\* The walk of list_for_each starts at the head and follows next.
LEMMA WalkFollowsNext ==
  ASSUME NEW C, NEW next \in [C -> C], NEW h, h.next = next, NEW head \in C
  PROVE  /\ Walk(h, head)[0] = head
         /\ \A i \in Nat \ {0} : Walk(h, head)[i] = next[Walk(h, head)[i - 1]]
<1>. DEFINE step(n) == CHOOSE f \in Steps(C, next, head, n) : TRUE
            w == [n \in Nat |-> step(n)[n]]
<1>1. ASSUME NEW n \in Nat PROVE step(n) \in Steps(C, next, head, n)
  BY <1>1, StepsExist
<1>2. w[0] = head
  BY <1>1 DEF Steps
<1>3. ASSUME NEW i \in Nat \ {0} PROVE w[i] = next[w[i - 1]]
  <2>1. i - 1 \in Nat /\ i \in 1 .. i /\ w[i] = step(i)[i] /\ w[i - 1] = step(i - 1)[i - 1]
    OBVIOUS
  <2>2. step(i) \in Steps(C, next, head, i) /\ step(i - 1) \in Steps(C, next, head, i - 1)
    BY <1>1, <2>1
  <2>. HIDE DEF step, w
  <2>3. step(i)[i] = next[step(i)[i - 1]]
    BY <2>1, <2>2 DEF Steps
  <2>4. step(i)[i - 1] = step(i - 1)[i - 1]
    BY <2>1, <2>2, StepsAgree
  <2>. QED  BY <2>1, <2>3, <2>4
<1>4. w = [i \in Nat |-> IF i = 0 THEN head ELSE next[w[i - 1]]]
  <2>. HIDE DEF w
  <2>1. w = [i \in Nat |-> w[i]]
    BY DEF w
  <2>. QED  BY <1>2, <1>3, <2>1
<1>. DEFINE Equation(v) == v = [i \in Nat |-> IF i = 0 THEN head ELSE next[v[i - 1]]]
            visit == CHOOSE v : Equation(v)
<1>5. Equation(visit)
  <2>1. Equation(w)
    BY <1>4
  <2>. HIDE DEF Equation, w
  <2>. QED  BY <2>1
<1>6. Walk(h, head) = visit
  BY DEF Walk
<1>7. visit[0] = head /\ \A i \in Nat \ {0} : visit[i] = next[visit[i - 1]]
  <2>. HIDE DEF visit
  <2>. QED  BY <1>5
<1>. QED  BY <1>6, <1>7

Iterates(C, next, head) ==
  {w \in [Nat -> C] : w[0] = head /\ \A i \in Nat \ {0} : w[i] = next[w[i - 1]]}

\* Any function of a set into itself can be applied as often as one likes.
LEMMA IteratesExist ==
  ASSUME NEW C, NEW next \in [C -> C], NEW head \in C
  PROVE  Iterates(C, next, head) # {}
<1>. DEFINE h == [next |-> next]
            w == Walk(h, head)
            v == [i \in Nat |-> w[i]]
<1>1. h.next = next
  OBVIOUS
<1>. HIDE DEF h
<1>2. w[0] = head /\ \A i \in Nat \ {0} : w[i] = next[w[i - 1]]
  BY <1>1, WalkFollowsNext
<1>. HIDE DEF w
<1>3. ASSUME NEW n \in Nat, w[n] \notin C PROVE FALSE
  <2>. DEFINE Bad == {i \in Nat : w[i] \notin C}
  <2>1. PICK i \in Bad : \A j \in Bad : i <= j
    BY <1>3, LeastNumber
  <2>2. i # 0 /\ i - 1 \in Nat /\ i \in Nat \ {0} /\ ~(i <= i - 1)
    BY <1>2, <2>1
  <2>3. w[i - 1] \in C
    BY <2>1, <2>2
  <2>. QED  BY <1>2, <2>1, <2>2, <2>3
<1>4. v \in [Nat -> C] /\ v[0] = head
  BY <1>2, <1>3
<1>5. ASSUME NEW i \in Nat \ {0} PROVE v[i] = next[v[i - 1]]
  <2>1. i \in Nat /\ i - 1 \in Nat
    OBVIOUS
  <2>. QED  BY <1>2, <2>1
<1>. HIDE DEF v
<1>. QED  BY <1>4, <1>5 DEF Iterates

-----------------------------------------------------------------------------
(* A heap in which the list of a cell holds the cells of a sequence. *)

Links(C)  == [next : [C -> C], prev : [C -> C]]
HeapOn(C) == {h \in Links(C) : Linked(h)}

\* The cell at a place of a list: the head is before the first and after the
\* last.
Place(head, q, i) == IF i \in 1 .. Len(q) THEN q[i] ELSE head

\* next goes through the cells of q, each once, and comes back to the head.
IsList(h, head, q) ==
  /\ q \in Seq(DOMAIN h.next \ {head}) /\ IsInjective(q)
  /\ \A i \in 0 .. Len(q) : h.next[Place(head, q, i)] = Place(head, q, i + 1)

\* The head of a list is the place before its first cell and after its last.
LEMMA PlaceOfList ==
  ASSUME NEW C, NEW head, NEW q \in Seq(C \ {head}), IsInjective(q)
  PROVE  /\ Len(q) \in Nat
         /\ \A i \in 1 .. Len(q) : Place(head, q, i) = q[i] /\ q[i] \in C \ {head}
         /\ Place(head, q, 0) = head /\ Place(head, q, Len(q) + 1) = head
         /\ \A i, j \in 1 .. Len(q) : q[i] = q[j] => i = j
<1>1. Len(q) \in Nat /\ DOMAIN q = 1 .. Len(q)
  BY LenProperties
<1>2. \A i \in 1 .. Len(q) : q[i] \in C \ {head}
  BY ElementOfSeq
<1>3. 0 \notin 1 .. Len(q) /\ Len(q) + 1 \notin 1 .. Len(q)
  BY <1>1
<1>. QED  BY <1>1, <1>2, <1>3 DEF Place, IsInjective

\* A list is shorter than the heap that holds it.
LEMMA ListIsShort ==
  ASSUME NEW C, IsFiniteSet(C), NEW head \in C, NEW q \in Seq(C \ {head}), IsInjective(q)
  PROVE  Cardinality(C) \in Nat /\ Len(q) + 1 <= Cardinality(C)
<1>1. /\ Len(q) \in Nat /\ DOMAIN q = 1 .. Len(q)
      /\ \A i \in 1 .. Len(q) : q[i] \in C \ {head}
      /\ \A i, j \in 1 .. Len(q) : q[i] = q[j] => i = j
  <2>1. Len(q) \in Nat /\ DOMAIN q = 1 .. Len(q)
    BY LenProperties
  <2>2. \A i \in 1 .. Len(q) : q[i] \in C \ {head}
    BY ElementOfSeq
  <2>. QED  BY <2>1, <2>2 DEF IsInjective
<1>2. q = [i \in 1 .. Len(q) |-> q[i]]
  BY LenProperties
<1>3. q \in Injection(1 .. Len(q), C \ {head})
  BY <1>1, <1>2 DEF Injection, IsInjective
<1>4. /\ Cardinality(C) \in Nat
      /\ IsFiniteSet(C \ {head}) /\ Cardinality(C \ {head}) = Cardinality(C) - 1
  BY FS_RemoveElement, FS_CardinalityType
<1>5. Cardinality(1 .. Len(q)) <= Cardinality(C \ {head})
  BY <1>3, <1>4, FS_Injection
<1>6. Cardinality(1 .. Len(q)) = Len(q)
  <2>1. 1 \in Int /\ Len(q) \in Int /\ (1 > Len(q) => Len(q) = 0)
    BY <1>1
  <2>. QED  BY <2>1, FS_Interval
<1>. QED  BY <1>1, <1>4, <1>5, <1>6

\* list_for_each visits the cells of a list, in their order, and stops.
LEMMA CellsOfList ==
  ASSUME NEW C, IsFiniteSet(C), NEW h, h.next \in [C -> C], NEW head \in C,
         NEW q, IsList(h, head, q)
  PROVE  Cells(h, head) = q
<1>. DEFINE w == Walk(h, head)
            n == Len(q)
<1>1. /\ q \in Seq(C \ {head}) /\ IsInjective(q)
      /\ \A i \in 0 .. n : h.next[Place(head, q, i)] = Place(head, q, i + 1)
  BY DEF IsList
<1>2. /\ n \in Nat /\ Place(head, q, 0) = head /\ Place(head, q, n + 1) = head
      /\ \A i \in 1 .. n : Place(head, q, i) = q[i] /\ q[i] # head
  BY <1>1, PlaceOfList
<1>3. w[0] = head /\ \A i \in Nat \ {0} : w[i] = h.next[w[i - 1]]
  <2>. DEFINE next == h.next
  <2>. HIDE DEF next
  <2>1. next \in [C -> C] /\ h.next = next
    BY DEF next
  <2>2. /\ Walk(h, head)[0] = head
        /\ \A i \in Nat \ {0} : Walk(h, head)[i] = next[Walk(h, head)[i - 1]]
    BY <2>1, WalkFollowsNext
  <2>. QED  BY <2>1, <2>2
<1>4. \A i \in 0 .. n + 1 : w[i] = Place(head, q, i)
  <2>. HIDE DEF w, n
  <2>. DEFINE Bad == {k \in Nat : k <= n + 1 /\ w[k] # Place(head, q, k)}
  <2>1. CASE Bad = {}
    <3>1. ASSUME NEW i \in 0 .. n + 1 PROVE w[i] = Place(head, q, i)
      BY <1>2, <2>1
    <3>. QED  BY <3>1
  <2>2. CASE Bad # {}
    <3>1. PICK k \in Bad : \A i \in Bad : k <= i
      <4>. HIDE DEF Bad
      <4>1. Bad \in SUBSET Nat
        BY DEF Bad
      <4>. QED  BY <2>2, <4>1, LeastNumber
    <3>2. k \in Nat \ {0} /\ k <= n + 1 /\ w[k] # Place(head, q, k)
      BY <1>2, <1>3, <3>1
    <3>3. k - 1 \in Nat /\ k - 1 \notin Bad /\ k - 1 \in 0 .. n /\ k - 1 <= n + 1
      BY <1>2, <3>1, <3>2
    <3>4. w[k - 1] = Place(head, q, k - 1)
      BY <3>3
    <3>. HIDE DEF Bad
    <3>5. h.next[Place(head, q, k - 1)] = Place(head, q, k)
      <4>1. (k - 1) + 1 = k
        BY <3>2
      <4>2. h.next[Place(head, q, k - 1)] = Place(head, q, (k - 1) + 1)
        BY <1>1, <3>3 DEF n
      <4>. QED  BY <4>1, <4>2
    <3>6. w[k] = h.next[w[k - 1]]
      BY <1>3, <3>2
    <3>. QED  BY <3>2, <3>4, <3>5, <3>6
  <2>. QED  BY <2>1, <2>2
<1>5. DOMAIN h.next = C /\ Cardinality(C) \in Nat /\ n + 1 <= Cardinality(C)
  BY <1>1, ListIsShort
<1>. DEFINE IsEnd(e) == w[e] = head /\ \A m \in 1 .. e - 1 : w[m] # head
            end == CHOOSE e \in 1 .. Cardinality(DOMAIN h.next) : IsEnd(e)
<1>6. Cells(h, head) = [i \in 1 .. end - 1 |-> w[i]]
  BY DEF Cells
<1>. HIDE DEF w, n
<1>7. n + 1 \in 1 .. Cardinality(DOMAIN h.next) /\ IsEnd(n + 1)
  <2>1. \A m \in 1 .. n : w[m] # head
    BY <1>2, <1>4
  <2>2. (n + 1) - 1 = n /\ n + 1 \in 0 .. n + 1
    BY <1>2
  <2>. QED  BY <1>2, <1>4, <1>5, <2>1, <2>2
<1>8. ASSUME NEW e \in 1 .. Cardinality(DOMAIN h.next), IsEnd(e) PROVE e = n + 1
  <2>1. e \in Nat \ {0}
    BY <1>5
  <2>2. ~(e < n + 1)
    <3>1. SUFFICES ASSUME e < n + 1 PROVE FALSE
      OBVIOUS
    <3>2. e \in 1 .. n /\ e \in 0 .. n + 1
      BY <1>2, <2>1, <3>1
    <3>. QED  BY <1>2, <1>4, <1>8, <3>2
  <2>3. ~(n + 1 < e)
    <3>1. SUFFICES ASSUME n + 1 < e PROVE FALSE
      OBVIOUS
    <3>2. n + 1 \in 1 .. e - 1
      BY <1>2, <2>1, <3>1
    <3>. QED  BY <1>7, <1>8, <3>2
  <2>. QED  BY <1>2, <2>1, <2>2, <2>3
<1>9. end = n + 1
  <2>. HIDE DEF IsEnd
  <2>. QED  BY <1>7, <1>8
<1>. HIDE DEF end
<1>10. Cells(h, head) = [i \in 1 .. n |-> w[i]]
  BY <1>2, <1>6, <1>9
<1>11. \A i \in 1 .. n : w[i] = q[i]
  BY <1>2, <1>4
<1>12. q = [i \in 1 .. n |-> q[i]]
  BY <1>1, LenProperties DEF n
<1>. QED  BY <1>10, <1>11, <1>12

-----------------------------------------------------------------------------
(* __list_add and list_del keep every walk closed. *)

\* A cell that is a list of its own, as INIT_LIST_HEAD leaves it.
IsAlone(h, n) == h.next[n] = n /\ h.prev[n] = n

\* In a heap every link leads to a cell, and the link back leads home.
LEMMA HeapCells ==
  ASSUME NEW C, NEW h \in HeapOn(C), NEW n \in C
  PROVE  /\ h.next \in [C -> C] /\ h.prev \in [C -> C] /\ DOMAIN h.next = C
         /\ h.next[n] \in C /\ h.prev[n] \in C
         /\ h.prev[h.next[n]] = n /\ h.next[h.prev[n]] = n
BY DEF HeapOn, Links, Linked

\* What __list_add writes.
LEMMA AddWrites ==
  ASSUME NEW C, NEW h \in HeapOn(C), NEW n \in C, NEW a \in C, NEW b \in C,
         NEW g, g = AddBetween(h, n, a, b)
  PROVE  /\ g \in Links(C)
         /\ \A c \in C : g.next[c] = (IF c = a THEN n ELSE IF c = n THEN b ELSE h.next[c])
         /\ \A c \in C : g.prev[c] = (IF c = n THEN a ELSE IF c = b THEN n ELSE h.prev[c])
<1>1. h \in Links(C)
  BY DEF HeapOn, Links
<1>. QED  BY <1>1 DEF AddBetween, Links

\* What list_del writes.
LEMMA DelWrites ==
  ASSUME NEW C, NEW h \in HeapOn(C), NEW n \in C, NEW g, g = list_del(h, n)
  PROVE  /\ g \in Links(C)
         /\ \A c \in C : g.next[c] = (IF c = n THEN n
                                      ELSE IF c = h.prev[n] THEN h.next[n] ELSE h.next[c])
         /\ \A c \in C : g.prev[c] = (IF c = n THEN n
                                      ELSE IF c = h.next[n] THEN h.prev[n] ELSE h.prev[c])
<1>1. h \in Links(C) /\ h.next[n] \in C /\ h.prev[n] \in C
  BY HeapCells DEF HeapOn, Links
<1>. DEFINE m == [h EXCEPT !.prev[h.next[n]] = h.prev[n], !.next[h.prev[n]] = h.next[n]]
<1>2. /\ m \in Links(C)
      /\ \A c \in C : m.next[c] = (IF c = h.prev[n] THEN h.next[n] ELSE h.next[c])
      /\ \A c \in C : m.prev[c] = (IF c = h.next[n] THEN h.prev[n] ELSE h.prev[c])
  BY <1>1 DEF Links
<1>3. g = [m EXCEPT !.next[n] = n, !.prev[n] = n]
  BY DEF list_del, INIT_LIST_HEAD
<1>. HIDE DEF m
<1>4. g \in Links(C)
  <2>1. m.next \in [C -> C] /\ m.prev \in [C -> C]
    BY <1>2 DEF Links
  <2>2. m = [next |-> m.next, prev |-> m.prev]
    BY <1>2 DEF Links
  <2>3. g = [next |-> [m.next EXCEPT ![n] = n], prev |-> [m.prev EXCEPT ![n] = n]]
    BY <1>3, <2>2
  <2>4. [m.next EXCEPT ![n] = n] \in [C -> C] /\ [m.prev EXCEPT ![n] = n] \in [C -> C]
    BY <2>1
  <2>. QED  BY <2>3, <2>4 DEF Links
<1>5. \A c \in C : g.next[c] = (IF c = n THEN n ELSE m.next[c])
  BY <1>2, <1>3 DEF Links
<1>6. \A c \in C : g.prev[c] = (IF c = n THEN n ELSE m.prev[c])
  BY <1>2, <1>3 DEF Links
<1>. QED  BY <1>2, <1>4, <1>5, <1>6

\* A cell that is alone can be put between two neighbours.
LEMMA AddKeepsLinked ==
  ASSUME NEW C, NEW h \in HeapOn(C), NEW n \in C, NEW a \in C, NEW b \in C,
         IsAlone(h, n), a # n, h.next[a] = b
  PROVE  AddBetween(h, n, a, b) \in HeapOn(C)
<1>. DEFINE g == AddBetween(h, n, a, b)
<1>1. /\ g \in Links(C)
      /\ \A c \in C : g.next[c] = (IF c = a THEN n ELSE IF c = n THEN b ELSE h.next[c])
      /\ \A c \in C : g.prev[c] = (IF c = n THEN a ELSE IF c = b THEN n ELSE h.prev[c])
  <2>. HIDE DEF g
  <2>1. g = AddBetween(h, n, a, b)
    BY DEF g
  <2>. QED  BY <2>1, AddWrites
<1>. HIDE DEF g
<1>2. /\ \A c \in C : h.next[c] \in C /\ h.prev[c] \in C
      /\ \A c \in C : h.prev[h.next[c]] = c /\ h.next[h.prev[c]] = c
  BY HeapCells
<1>3. h.prev[b] = a /\ h.next[n] = n /\ h.prev[n] = n /\ b # n
  BY <1>2 DEF IsAlone
<1>4. ASSUME NEW c \in C PROVE g.prev[g.next[c]] = c
  <2>1. CASE c = a
    BY <1>1, <2>1
  <2>2. CASE c = n
    BY <1>1, <1>3, <2>2
  <2>3. CASE c # a /\ c # n
    <3>1. g.next[c] = h.next[c] /\ h.next[c] \in C
      BY <1>1, <1>2, <2>3
    <3>2. h.next[c] # n /\ h.next[c] # b
      BY <1>2, <1>3, <2>3
    <3>. QED  BY <1>1, <1>2, <3>1, <3>2
  <2>. QED  BY <2>1, <2>2, <2>3
<1>5. ASSUME NEW c \in C PROVE g.next[g.prev[c]] = c
  <2>1. CASE c = n
    BY <1>1, <2>1
  <2>2. CASE c = b /\ c # n
    BY <1>1, <1>3, <2>2
  <2>3. CASE c # b /\ c # n
    <3>1. g.prev[c] = h.prev[c] /\ h.prev[c] \in C
      BY <1>1, <1>2, <2>3
    <3>2. h.prev[c] # n /\ h.prev[c] # a
      BY <1>2, <1>3, <2>3
    <3>. QED  BY <1>1, <1>2, <3>1, <3>2
  <2>. QED  BY <2>1, <2>2, <2>3
<1>6. DOMAIN g.next = C
  BY <1>1 DEF Links
<1>7. Linked(g)
  BY <1>4, <1>5, <1>6 DEF Linked
<1>8. g \in HeapOn(C)
  BY <1>1, <1>7 DEF HeapOn, Links
<1>. QED  BY <1>8 DEF g

\* Any cell can be taken out, and is alone afterwards.
LEMMA DelKeepsLinked ==
  ASSUME NEW C, NEW h \in HeapOn(C), NEW n \in C
  PROVE  list_del(h, n) \in HeapOn(C) /\ IsAlone(list_del(h, n), n)
<1>. DEFINE g == list_del(h, n)
<1>1. /\ g \in Links(C)
      /\ \A c \in C : g.next[c] = (IF c = n THEN n
                                   ELSE IF c = h.prev[n] THEN h.next[n] ELSE h.next[c])
      /\ \A c \in C : g.prev[c] = (IF c = n THEN n
                                   ELSE IF c = h.next[n] THEN h.prev[n] ELSE h.prev[c])
  <2>. HIDE DEF g
  <2>1. g = list_del(h, n)
    BY DEF g
  <2>. QED  BY <2>1, DelWrites
<1>. HIDE DEF g
<1>2. /\ \A c \in C : h.next[c] \in C /\ h.prev[c] \in C
      /\ \A c \in C : h.prev[h.next[c]] = c /\ h.next[h.prev[c]] = c
  BY HeapCells
<1>3. IsAlone(g, n)
  BY <1>1 DEF IsAlone
<1>4. ASSUME NEW c \in C PROVE g.prev[g.next[c]] = c
  <2>1. CASE c = n
    BY <1>1, <2>1
  <2>2. CASE c = h.prev[n] /\ c # n
    <3>1. h.next[n] # n
      BY <1>2, <2>2
    <3>. QED  BY <1>1, <1>2, <2>2, <3>1
  <2>3. CASE c # h.prev[n] /\ c # n
    <3>1. g.next[c] = h.next[c] /\ h.next[c] \in C
      BY <1>1, <1>2, <2>3
    <3>2. h.next[c] # n /\ h.next[c] # h.next[n]
      BY <1>2, <2>3
    <3>. QED  BY <1>1, <1>2, <3>1, <3>2
  <2>. QED  BY <2>1, <2>2, <2>3
<1>5. ASSUME NEW c \in C PROVE g.next[g.prev[c]] = c
  <2>1. CASE c = n
    BY <1>1, <2>1
  <2>2. CASE c = h.next[n] /\ c # n
    <3>1. h.prev[n] # n
      BY <1>2, <2>2
    <3>. QED  BY <1>1, <1>2, <2>2, <3>1
  <2>3. CASE c # h.next[n] /\ c # n
    <3>1. g.prev[c] = h.prev[c] /\ h.prev[c] \in C
      BY <1>1, <1>2, <2>3
    <3>2. h.prev[c] # n /\ h.prev[c] # h.prev[n]
      BY <1>2, <2>3
    <3>. QED  BY <1>1, <1>2, <3>1, <3>2
  <2>. QED  BY <2>1, <2>2, <2>3
<1>6. DOMAIN g.next = C
  BY <1>1 DEF Links
<1>7. Linked(g)
  BY <1>4, <1>5, <1>6 DEF Linked
<1>8. g \in HeapOn(C)
  BY <1>1, <1>7 DEF HeapOn, Links
<1>. QED  BY <1>3, <1>8 DEF g

-----------------------------------------------------------------------------
(* On a list, __list_add inserts and list_del removes one element. *)

\* InsertAt, place by place.
LEMMA InsertAtPlace ==
  ASSUME NEW S, NEW q \in Seq(S), NEW e \in S, NEW k \in 0 .. Len(q)
  PROVE  /\ InsertAt(q, k + 1, e) \in Seq(S)
         /\ Len(InsertAt(q, k + 1, e)) = Len(q) + 1
         /\ \A i \in 1 .. Len(q) + 1 :
              InsertAt(q, k + 1, e)[i] = (IF i <= k THEN q[i] ELSE IF i = k + 1 THEN e ELSE q[i - 1])
<1>. DEFINE n == Len(q)
            a == SubSeq(q, 1, k)
            b == SubSeq(q, k + 1, n)
<1>1. n \in Nat /\ k \in Nat /\ k <= n /\ \A i \in 1 .. n : q[i] \in S
  BY LenProperties, ElementOfSeq
<1>2. InsertAt(q, k + 1, e) = (a \o <<e>>) \o b
  <2>1. (k + 1) - 1 = k
    BY <1>1
  <2>. QED  BY <2>1 DEF InsertAt
<1>3. a \in Seq(S) /\ Len(a) = k /\ \A i \in 1 .. k : a[i] = q[i]
  <2>1. \A i \in 1 .. k : q[i] \in S
    BY <1>1
  <2>2. /\ a \in Seq(S) /\ Len(a) = (IF 1 <= k THEN k - 1 + 1 ELSE 0)
        /\ \A i \in 1 .. k - 1 + 1 : a[i] = q[1 + i - 1]
    BY <1>1, <2>1, SubSeqProperties
  <2>. HIDE DEF a
  <2>. QED  BY <1>1, <2>2
<1>4. b \in Seq(S) /\ Len(b) = n - k /\ \A i \in 1 .. n - k : b[i] = q[k + i]
  <2>1. \A i \in k + 1 .. n : q[i] \in S
    BY <1>1
  <2>2. /\ b \in Seq(S) /\ Len(b) = (IF k + 1 <= n THEN n - (k + 1) + 1 ELSE 0)
        /\ \A i \in 1 .. n - (k + 1) + 1 : b[i] = q[k + 1 + i - 1]
    <3>1. k + 1 \in Int /\ n \in Int
      BY <1>1
    <3>. HIDE DEF n
    <3>. QED  BY <2>1, <3>1, SubSeqProperties
  <2>. HIDE DEF b, n
  <2>3. Len(b) = n - k
    BY <1>1, <2>2
  <2>4. ASSUME NEW i \in 1 .. n - k PROVE b[i] = q[k + i]
    <3>1. i \in 1 .. n - (k + 1) + 1 /\ k + 1 + i - 1 = k + i
      BY <1>1
    <3>. QED  BY <2>2, <3>1
  <2>. QED  BY <2>2, <2>3, <2>4
<1>. HIDE DEF a, b, n
<1>. DEFINE c == a \o <<e>>
<1>5. /\ c \in Seq(S) /\ Len(c) = k + 1
      /\ \A i \in 1 .. k + 1 : c[i] = (IF i <= k THEN q[i] ELSE e)
  <2>1. <<e>> \in Seq(S) /\ Len(<<e>>) = 1 /\ <<e>>[1] = e
    OBVIOUS
  <2>. DEFINE u == <<e>>
  <2>. HIDE DEF u
  <2>2. u \in Seq(S) /\ Len(u) = 1 /\ u[1] = e
    BY <2>1 DEF u
  <2>3. /\ a \o u \in Seq(S) /\ Len(a \o u) = Len(a) + Len(u)
        /\ \A i \in 1 .. Len(a) + Len(u) : (a \o u)[i] = IF i <= Len(a) THEN a[i] ELSE u[i - Len(a)]
    BY <1>3, <2>2, ConcatProperties
  <2>4. c = a \o u
    BY DEF u
  <2>. HIDE DEF c
  <2>. QED  BY <1>1, <1>3, <2>2, <2>3, <2>4
<1>. HIDE DEF c
<1>6. /\ c \o b \in Seq(S) /\ Len(c \o b) = Len(c) + Len(b)
      /\ \A i \in 1 .. Len(c) + Len(b) : (c \o b)[i] = IF i <= Len(c) THEN c[i] ELSE b[i - Len(c)]
  BY <1>4, <1>5, ConcatProperties
<1>7. Len(c \o b) = n + 1
  BY <1>1, <1>4, <1>5, <1>6
<1>8. ASSUME NEW i \in 1 .. n + 1
      PROVE  (c \o b)[i] = (IF i <= k THEN q[i] ELSE IF i = k + 1 THEN e ELSE q[i - 1])
  <2>1. CASE i <= k + 1
    <3>1. i \in 1 .. k + 1 /\ i \in 1 .. Len(c) + Len(b) /\ i <= Len(c)
      BY <1>1, <1>4, <1>5, <2>1
    <3>2. (c \o b)[i] = c[i]
      BY <1>6, <3>1
    <3>. QED  BY <1>1, <1>5, <3>1, <3>2
  <2>2. CASE ~(i <= k + 1)
    <3>1. i - (k + 1) \in 1 .. n - k /\ k + (i - (k + 1)) = i - 1 /\ i \in 1 .. Len(c) + Len(b)
      BY <1>1, <1>4, <1>5, <2>2
    <3>2. (c \o b)[i] = b[i - (k + 1)]
      BY <1>1, <1>5, <1>6, <2>2, <3>1
    <3>. QED  BY <1>1, <1>4, <2>2, <3>1, <3>2
  <2>. QED  BY <2>1, <2>2
<1>9. InsertAt(q, k + 1, e) = c \o b
  BY <1>2 DEF c
<1>. QED  BY <1>6, <1>7, <1>8, <1>9 DEF n

\* u is q with e after its first k elements.
HasInserted(u, S, q, k, e) ==
  /\ u \in Seq(S) /\ Len(u) = Len(q) + 1
  /\ \A i \in 1 .. Len(q) + 1 : u[i] = (IF i <= k THEN q[i] ELSE IF i = k + 1 THEN e ELSE q[i - 1])

\* InsertAt gives such a sequence.
LEMMA InsertAtHas ==
  ASSUME NEW S, NEW q \in Seq(S), NEW e \in S, NEW k \in 0 .. Len(q)
  PROVE  HasInserted(InsertAt(q, k + 1, e), S, q, k, e)
<1>. DEFINE v == InsertAt(q, k + 1, e)
<1>1. /\ v \in Seq(S) /\ Len(v) = Len(q) + 1
      /\ \A i \in 1 .. Len(q) + 1 : v[i] = (IF i <= k THEN q[i] ELSE IF i = k + 1 THEN e ELSE q[i - 1])
  BY InsertAtPlace
<1>. HIDE DEF v
<1>2. HasInserted(v, S, q, k, e)
  BY <1>1 DEF HasInserted
<1>. QED  BY <1>2 DEF v

\* So it does by another name.
LEMMA InsertAtGives ==
  ASSUME NEW S, NEW q \in Seq(S), NEW e \in S, NEW k \in 0 .. Len(q), NEW u, u = InsertAt(q, k + 1, e)
  PROVE  HasInserted(u, S, q, k, e)
<1>. DEFINE v == InsertAt(q, k + 1, e)
<1>1. HasInserted(v, S, q, k, e)
  BY InsertAtHas
<1>2. u = v
  OBVIOUS
<1>. HIDE DEF v
<1>. QED  BY <1>1, <1>2

\* Inserting an element that is new.
LEMMA InsertIntoQueue ==
  ASSUME NEW S, NEW q \in Seq(S), IsInjective(q), NEW e \in S, e \notin Range(q),
         NEW k \in 0 .. Len(q)
  PROVE  IsInjective(InsertAt(q, k + 1, e))
<1>. DEFINE r == InsertAt(q, k + 1, e)
            from(i) == IF i <= k THEN i ELSE i - 1
<1>1. /\ r \in Seq(S) /\ Len(r) = Len(q) + 1
      /\ \A i \in 1 .. Len(q) + 1 :
           r[i] = (IF i <= k THEN q[i] ELSE IF i = k + 1 THEN e ELSE q[i - 1])
  BY InsertAtPlace
<1>. HIDE DEF r
<1>2. Len(q) \in Nat /\ DOMAIN q = 1 .. Len(q) /\ DOMAIN r = 1 .. Len(q) + 1
  BY <1>1, LenProperties
<1>3. \A i, j \in 1 .. Len(q) : q[i] = q[j] => i = j
  BY <1>2 DEF IsInjective
<1>4. \A i \in 1 .. Len(q) : q[i] # e
  BY <1>2, RangeEquality
<1>5. ASSUME NEW i \in 1 .. Len(q) + 1, i # k + 1
      PROVE  from(i) \in 1 .. Len(q) /\ r[i] = q[from(i)] /\ r[i] # e
  BY <1>1, <1>2, <1>4, <1>5
<1>6. r[k + 1] = e /\ k + 1 \in 1 .. Len(q) + 1
  BY <1>1, <1>2
<1>7. ASSUME NEW i \in 1 .. Len(q) + 1, NEW j \in 1 .. Len(q) + 1, r[i] = r[j] PROVE i = j
  <2>1. CASE i = k + 1 \/ j = k + 1
    <3>1. r[i] = e /\ r[j] = e
      BY <1>6, <1>7, <2>1
    <3>2. i = k + 1 /\ j = k + 1
      BY <1>5, <3>1
    <3>. QED  BY <3>2
  <2>2. CASE i # k + 1 /\ j # k + 1
    <3>1. from(i) = from(j)
      BY <1>3, <1>5, <1>7, <2>2
    <3>. QED  BY <1>2, <2>2, <3>1
  <2>. QED  BY <2>1, <2>2
<1>8. IsInjective(r)
  BY <1>2, <1>7 DEF IsInjective
<1>. QED  BY <1>8 DEF r

\* __list_add puts a cell that is alone between two neighbours of a list.
LEMMA AddInserts ==
  ASSUME NEW C, NEW h \in HeapOn(C), NEW head \in C, NEW q, IsList(h, head, q),
         NEW n \in C, n # head, n \notin Range(q), NEW k \in 0 .. Len(q),
         NEW a, a = Place(head, q, k), NEW b, b = Place(head, q, k + 1)
  PROVE  IsList(AddBetween(h, n, a, b), head, InsertAt(q, k + 1, n))
<1>. DEFINE g == AddBetween(h, n, a, b)
            r == InsertAt(q, k + 1, n)
            D == C \ {head}
<1>1. /\ DOMAIN h.next = C /\ q \in Seq(D) /\ IsInjective(q)
      /\ \A i \in 0 .. Len(q) : h.next[Place(head, q, i)] = Place(head, q, i + 1)
  BY HeapCells DEF IsList
<1>2. n \in D
  OBVIOUS
<1>3. /\ Len(q) \in Nat
      /\ \A i \in 1 .. Len(q) : Place(head, q, i) = q[i] /\ q[i] \in D
      /\ Place(head, q, 0) = head /\ Place(head, q, Len(q) + 1) = head
      /\ \A i, j \in 1 .. Len(q) : q[i] = q[j] => i = j
  <2>1. Len(q) \in Nat /\ Place(head, q, 0) = head /\ Place(head, q, Len(q) + 1) = head
    BY <1>1, PlaceOfList
  <2>2. \A i \in 1 .. Len(q) : Place(head, q, i) = q[i] /\ q[i] \in D
    BY <1>1, PlaceOfList
  <2>3. \A i, j \in 1 .. Len(q) : q[i] = q[j] => i = j
    BY <1>1, PlaceOfList
  <2>. QED  BY <2>1, <2>2, <2>3
<1>4. \A i \in 1 .. Len(q) : q[i] # n
  BY <1>1, <1>3, RangeEquality
<1>5. a \in C /\ b \in C /\ h.next[a] = b /\ a # n
  <2>1. k \in 1 .. Len(q) \/ k = 0
    BY <1>3
  <2>2. k + 1 \in 1 .. Len(q) \/ k + 1 = Len(q) + 1
    BY <1>3
  <2>3. a \in C /\ a # n
    BY <1>3, <1>4, <2>1
  <2>4. b \in C
    BY <1>3, <2>2
  <2>. QED  BY <1>1, <2>3, <2>4
<1>6. /\ g \in Links(C)
      /\ \A c \in C : g.next[c] = (IF c = a THEN n ELSE IF c = n THEN b ELSE h.next[c])
  <2>. HIDE DEF g
  <2>1. g = AddBetween(h, n, a, b)
    BY DEF g
  <2>. QED  BY <1>5, <2>1, AddWrites
<1>7. /\ r \in Seq(D) /\ Len(r) = Len(q) + 1
      /\ \A i \in 1 .. Len(q) + 1 :
           r[i] = (IF i <= k THEN q[i] ELSE IF i = k + 1 THEN n ELSE q[i - 1])
  <2>. HIDE DEF D
  <2>. QED  BY <1>1, <1>2, InsertAtPlace
<1>8. IsInjective(r)
  <2>. HIDE DEF D
  <2>. QED  BY <1>1, <1>2, InsertIntoQueue
<1>. HIDE DEF g, r, D
<1>9. DOMAIN g.next = C
  BY <1>6 DEF Links
\* The places of the new list.
<1>10. /\ \A i \in 0 .. k : Place(head, r, i) = Place(head, q, i)
       /\ Place(head, r, k + 1) = n
       /\ \A i \in k + 2 .. Len(q) + 2 : Place(head, r, i) = Place(head, q, i - 1)
  <2>1. ASSUME NEW i \in 0 .. k PROVE Place(head, r, i) = Place(head, q, i)
    BY <1>3, <1>7 DEF Place
  <2>2. Place(head, r, k + 1) = n
    BY <1>3, <1>7 DEF Place
  <2>3. ASSUME NEW i \in k + 2 .. Len(q) + 2 PROVE Place(head, r, i) = Place(head, q, i - 1)
    <3>1. CASE i = Len(q) + 2
      <4>1. i \notin 1 .. Len(r) /\ i - 1 \notin 1 .. Len(q)
        BY <1>3, <1>7, <3>1
      <4>. QED  BY <4>1 DEF Place
    <3>2. CASE i # Len(q) + 2
      <4>1. i \in 1 .. Len(r) /\ i - 1 \in 1 .. Len(q) /\ ~(i <= k) /\ i # k + 1
        BY <1>3, <1>7, <3>2
      <4>2. r[i] = q[i - 1]
        BY <1>7, <4>1
      <4>. QED  BY <4>1, <4>2 DEF Place
    <3>. QED  BY <3>1, <3>2
  <2>. QED  BY <2>1, <2>2, <2>3
\* A place of the old list other than the k-th keeps its next.
<1>11. ASSUME NEW i \in 0 .. Len(q), i # k
       PROVE  g.next[Place(head, q, i)] = Place(head, q, i + 1)
  <2>1. Place(head, q, i) \in C /\ Place(head, q, i) # n /\ Place(head, q, i) # a
    <3>1. CASE i = 0
      <4>1. k \in 1 .. Len(q)
        BY <1>3, <1>11, <3>1
      <4>. QED  BY <1>3, <3>1, <4>1 DEF D
    <3>2. CASE i # 0
      <4>1. i \in 1 .. Len(q)
        BY <1>3, <3>2
      <4>2. k \in 1 .. Len(q) \/ k = 0
        BY <1>3
      <4>. QED  BY <1>3, <1>4, <1>11, <4>1, <4>2 DEF D
    <3>. QED  BY <3>1, <3>2
  <2>. QED  BY <1>1, <1>6, <2>1
<1>12. ASSUME NEW i \in 0 .. Len(r)
       PROVE  g.next[Place(head, r, i)] = Place(head, r, i + 1)
  <2>1. i \in Nat /\ k \in Nat /\ k <= Len(q) /\ i <= Len(q) + 1
    BY <1>3, <1>7
  <2>2. CASE i < k
    <3>1. i \in 0 .. k /\ i + 1 \in 0 .. k /\ i \in 0 .. Len(q) /\ i # k
      BY <1>3, <2>1, <2>2
    <3>. QED  BY <1>10, <1>11, <3>1
  <2>3. CASE i = k
    <3>1. Place(head, r, i) = a /\ Place(head, r, i + 1) = n
      BY <1>10, <2>1, <2>3
    <3>. QED  BY <1>5, <1>6, <3>1
  <2>4. CASE i = k + 1
    <3>1. Place(head, r, i) = n /\ Place(head, r, i + 1) = Place(head, q, k + 1)
      <4>1. i + 1 \in k + 2 .. Len(q) + 2 /\ (i + 1) - 1 = k + 1
        BY <1>3, <2>1, <2>4
      <4>. QED  BY <1>10, <2>4, <4>1
    <3>. QED  BY <1>5, <1>6, <3>1
  <2>5. CASE i > k + 1
    <3>1. /\ i \in k + 2 .. Len(q) + 2 /\ i + 1 \in k + 2 .. Len(q) + 2
          /\ i - 1 \in 0 .. Len(q) /\ i - 1 # k /\ (i - 1) + 1 = i /\ (i + 1) - 1 = i
      BY <1>3, <2>1, <2>5
    <3>2. Place(head, r, i) = Place(head, q, i - 1) /\ Place(head, r, i + 1) = Place(head, q, i)
      BY <1>10, <3>1
    <3>. QED  BY <1>11, <3>1, <3>2
  <2>. QED  BY <2>1, <2>2, <2>3, <2>4, <2>5
<1>. QED  BY <1>7, <1>8, <1>9, <1>12 DEF IsList, g, r, D

\* list_del takes a cell out of the list that holds it.
LEMMA DelRemoves ==
  ASSUME NEW C, NEW h \in HeapOn(C), NEW head \in C, NEW q, IsList(h, head, q),
         NEW k \in 1 .. Len(q), NEW n, n = q[k]
  PROVE  IsList(list_del(h, n), head, RemoveFirst(q, n))
<1>. DEFINE g == list_del(h, n)
            r == RemoveFirst(q, n)
            D == C \ {head}
<1>1. /\ DOMAIN h.next = C /\ q \in Seq(D) /\ IsInjective(q)
      /\ \A i \in 0 .. Len(q) : h.next[Place(head, q, i)] = Place(head, q, i + 1)
  BY HeapCells DEF IsList
<1>2. /\ Len(q) \in Nat
      /\ \A i \in 1 .. Len(q) : Place(head, q, i) = q[i] /\ q[i] \in D
      /\ Place(head, q, 0) = head /\ Place(head, q, Len(q) + 1) = head
      /\ \A i, j \in 1 .. Len(q) : q[i] = q[j] => i = j
  <2>1. Len(q) \in Nat /\ Place(head, q, 0) = head /\ Place(head, q, Len(q) + 1) = head
    BY <1>1, PlaceOfList
  <2>2. \A i \in 1 .. Len(q) : Place(head, q, i) = q[i] /\ q[i] \in D
    BY <1>1, PlaceOfList
  <2>3. \A i, j \in 1 .. Len(q) : q[i] = q[j] => i = j
    BY <1>1, PlaceOfList
  <2>. QED  BY <2>1, <2>2, <2>3
<1>3. n \in C /\ n # head /\ Place(head, q, k) = n
  BY <1>2
<1>4. h.next[n] = Place(head, q, k + 1) /\ h.prev[n] = Place(head, q, k - 1)
  <2>1. k \in 0 .. Len(q) /\ k - 1 \in 0 .. Len(q) /\ (k - 1) + 1 = k
    BY <1>2
  <2>2. h.next[n] = Place(head, q, k + 1)
    BY <1>1, <1>3, <2>1
  <2>3. h.next[Place(head, q, k - 1)] = Place(head, q, (k - 1) + 1)
    BY <1>1, <2>1
  <2>4. Place(head, q, k - 1) \in C
    <3>1. k - 1 = 0 \/ k - 1 \in 1 .. Len(q)
      BY <1>2
    <3>. QED  BY <1>2, <3>1
  <2>5. h.prev[h.next[Place(head, q, k - 1)]] = Place(head, q, k - 1)
    BY <2>4, HeapCells
  <2>. QED  BY <1>3, <2>1, <2>2, <2>3, <2>5
<1>5. /\ g \in Links(C)
      /\ \A c \in C : g.next[c] = (IF c = n THEN n
                                   ELSE IF c = h.prev[n] THEN h.next[n] ELSE h.next[c])
  <2>. HIDE DEF g
  <2>1. g = list_del(h, n)
    BY DEF g
  <2>. QED  BY <1>3, <2>1, DelWrites
<1>6. /\ r \in Seq(D) /\ Len(r) = Len(q) - 1
      /\ \A i \in 1 .. Len(q) - 1 : r[i] = (IF i < k THEN q[i] ELSE q[i + 1])
  <2>1. \A i \in 1 .. Len(q) : q[i] = q[k] => i = k
    BY <1>2
  <2>. HIDE DEF D
  <2>. QED  BY <1>1, <2>1, RemoveAtPlace
<1>7. IsInjective(r)
  <2>. HIDE DEF D
  <2>. QED  BY <1>1, RemoveFromQueue
<1>. HIDE DEF g, r, D
<1>8. DOMAIN g.next = C
  BY <1>5 DEF Links
\* The places of the new list.
<1>9. /\ \A i \in 0 .. k - 1 : Place(head, r, i) = Place(head, q, i)
      /\ \A i \in k .. Len(q) : Place(head, r, i) = Place(head, q, i + 1)
  <2>1. ASSUME NEW i \in 0 .. k - 1 PROVE Place(head, r, i) = Place(head, q, i)
    BY <1>2, <1>6 DEF Place
  <2>2. ASSUME NEW i \in k .. Len(q) PROVE Place(head, r, i) = Place(head, q, i + 1)
    <3>1. CASE i = Len(q)
      <4>1. i \notin 1 .. Len(r) /\ i + 1 \notin 1 .. Len(q)
        BY <1>2, <1>6, <3>1
      <4>. QED  BY <4>1 DEF Place
    <3>2. CASE i # Len(q)
      <4>1. i \in 1 .. Len(r) /\ i + 1 \in 1 .. Len(q) /\ ~(i < k)
        BY <1>2, <1>6, <3>2
      <4>2. r[i] = q[i + 1]
        BY <1>6, <4>1
      <4>. QED  BY <4>1, <4>2 DEF Place
    <3>. QED  BY <3>1, <3>2
  <2>. QED  BY <2>1, <2>2
\* A place of the old list away from the cell keeps its next.
<1>10. ASSUME NEW i \in 0 .. Len(q), i # k, i # k - 1
       PROVE  g.next[Place(head, q, i)] = Place(head, q, i + 1)
  <2>1. Place(head, q, i) \in C /\ Place(head, q, i) # n
    <3>1. i = 0 \/ i \in 1 .. Len(q)
      BY <1>2
    <3>. QED  BY <1>2, <1>3, <1>10, <3>1 DEF D
  <2>2. Place(head, q, i) # Place(head, q, k - 1)
    <3>1. CASE i = 0
      <4>1. k - 1 \in 1 .. Len(q)
        BY <1>2, <1>10, <3>1
      <4>. QED  BY <1>2, <3>1, <4>1 DEF D
    <3>2. CASE i # 0
      <4>1. i \in 1 .. Len(q)
        BY <1>2, <3>2
      <4>2. k - 1 \in 1 .. Len(q) \/ k - 1 = 0
        BY <1>2
      <4>. QED  BY <1>2, <1>10, <4>1, <4>2 DEF D
    <3>. QED  BY <3>1, <3>2
  <2>. QED  BY <1>1, <1>4, <1>5, <2>1, <2>2
<1>11. g.next[Place(head, q, k - 1)] = Place(head, q, k + 1)
  <2>1. Place(head, q, k - 1) \in C /\ Place(head, q, k - 1) # n
    <3>1. k - 1 = 0 \/ k - 1 \in 1 .. Len(q)
      BY <1>2
    <3>2. k - 1 # k
      BY <1>2
    <3>. QED  BY <1>2, <1>3, <3>1, <3>2 DEF D
  <2>. QED  BY <1>4, <1>5, <2>1
<1>12. ASSUME NEW i \in 0 .. Len(r)
       PROVE  g.next[Place(head, r, i)] = Place(head, r, i + 1)
  <2>1. i \in Nat /\ k \in Nat /\ k <= Len(q) /\ i <= Len(q) - 1
    BY <1>2, <1>6
  <2>2. CASE i < k - 1
    <3>1. i \in 0 .. k - 1 /\ i + 1 \in 0 .. k - 1 /\ i \in 0 .. Len(q) /\ i # k /\ i # k - 1
      BY <1>2, <2>1, <2>2
    <3>. QED  BY <1>9, <1>10, <3>1
  <2>3. CASE i = k - 1
    <3>1. i \in 0 .. k - 1 /\ i + 1 = k /\ k \in k .. Len(q)
      BY <1>2, <2>1, <2>3
    <3>2. Place(head, r, i) = Place(head, q, k - 1) /\ Place(head, r, i + 1) = Place(head, q, k + 1)
      BY <1>9, <2>3, <3>1
    <3>. QED  BY <1>11, <3>2
  <2>4. CASE i > k - 1
    <3>1. /\ i \in k .. Len(q) /\ i + 1 \in k .. Len(q)
          /\ i + 1 \in 0 .. Len(q) /\ i + 1 # k /\ i + 1 # k - 1
      BY <1>2, <2>1, <2>4
    <3>2. Place(head, r, i) = Place(head, q, i + 1) /\ Place(head, r, i + 1) = Place(head, q, (i + 1) + 1)
      BY <1>9, <3>1
    <3>. QED  BY <1>10, <3>1, <3>2
  <2>. QED  BY <2>1, <2>2, <2>3, <2>4
<1>. QED  BY <1>6, <1>7, <1>8, <1>12 DEF IsList, g, r, D

-----------------------------------------------------------------------------
(* The other lists do not change. *)

\* A list whose links are the same in two heaps is a list of both.
LEMMA OtherListsKept ==
  ASSUME NEW C, NEW h \in HeapOn(C), NEW g \in HeapOn(C), NEW head \in C,
         NEW q, IsList(h, head, q),
         \A c \in Range(q) \cup {head} : g.next[c] = h.next[c]
  PROVE  IsList(g, head, q)
<1>1. /\ DOMAIN h.next = C /\ DOMAIN g.next = C
      /\ q \in Seq(C \ {head}) /\ IsInjective(q)
      /\ \A i \in 0 .. Len(q) : h.next[Place(head, q, i)] = Place(head, q, i + 1)
  BY HeapCells DEF IsList
<1>2. ASSUME NEW i \in 0 .. Len(q) PROVE Place(head, q, i) \in Range(q) \cup {head}
  BY <1>1, RangeEquality DEF Place
<1>3. \A i \in 0 .. Len(q) : g.next[Place(head, q, i)] = Place(head, q, i + 1)
  BY <1>1, <1>2
<1>. QED  BY <1>1, <1>3 DEF IsList

-----------------------------------------------------------------------------
(* A heap of heads and items: each item is in one list, or alone. *)

Listed(h, hd) == Range(Cells(h, hd))

Shelves(h, C, H, I) ==
  /\ h \in HeapOn(C)
  /\ \A hd \in H : IsList(h, hd, Cells(h, hd)) /\ Listed(h, hd) \subseteq I
  /\ \A hd, o \in H : \A c \in I : c \in Listed(h, hd) /\ c \in Listed(h, o) => hd = o
  /\ \A c \in I : (\A hd \in H : c \notin Listed(h, hd)) => IsAlone(h, c)

\* A list of g has the cells q, and the others the cells that they have in h.
ListBecomes(h, g, H, hd, q) ==
  Cells(g, hd) = q /\ \A o \in H \ {hd} : Cells(g, o) = Cells(h, o)

\* Inserting adds the element to what the queue holds.
LEMMA RangeOfInsert ==
  ASSUME NEW S, NEW q \in Seq(S), NEW e \in S, NEW k \in 0 .. Len(q)
  PROVE  Range(InsertAt(q, k + 1, e)) = Range(q) \cup {e}
<1>. DEFINE r == InsertAt(q, k + 1, e)
<1>1. /\ r \in Seq(S) /\ Len(r) = Len(q) + 1
      /\ \A i \in 1 .. Len(q) + 1 :
           r[i] = (IF i <= k THEN q[i] ELSE IF i = k + 1 THEN e ELSE q[i - 1])
  BY InsertAtPlace
<1>. HIDE DEF r
<1>2. /\ Len(q) \in Nat
      /\ Range(q) = {q[i] : i \in 1 .. Len(q)} /\ Range(r) = {r[i] : i \in 1 .. Len(q) + 1}
  BY <1>1, LenProperties, RangeEquality
<1>3. ASSUME NEW i \in 1 .. Len(q) + 1 PROVE r[i] \in Range(q) \cup {e}
  <2>1. i <= k => i \in 1 .. Len(q)
    BY <1>2
  <2>2. ~(i <= k) /\ i # k + 1 => i - 1 \in 1 .. Len(q)
    BY <1>2
  <2>. QED  BY <1>1, <1>2, <2>1, <2>2
<1>4. ASSUME NEW j \in 1 .. Len(q) PROVE q[j] \in Range(r)
  <2>1. CASE j <= k
    BY <1>1, <1>2, <2>1
  <2>2. CASE ~(j <= k)
    <3>1. j + 1 \in 1 .. Len(q) + 1 /\ ~(j + 1 <= k) /\ j + 1 # k + 1 /\ (j + 1) - 1 = j
      BY <1>2, <2>2
    <3>2. r[j + 1] = q[j]
      BY <1>1, <3>1
    <3>. QED  BY <1>2, <3>1, <3>2
  <2>. QED  BY <2>1, <2>2
<1>5. e \in Range(r)
  <2>1. k + 1 \in 1 .. Len(q) + 1 /\ ~(k + 1 <= k)
    BY <1>2
  <2>2. r[k + 1] = e
    BY <1>1, <2>1
  <2>. QED  BY <1>2, <2>1, <2>2
<1>6. Range(r) = Range(q) \cup {e}
  BY <1>2, <1>3, <1>4, <1>5
<1>. QED  BY <1>6 DEF r

\* A place of a list is its head or one of its cells.
LEMMA PlaceIsInList ==
  ASSUME NEW C, NEW h \in HeapOn(C), NEW hd \in C, NEW q, IsList(h, hd, q),
         NEW k \in 0 .. Len(q)
  PROVE  /\ Place(hd, q, k) \in Range(q) \cup {hd}
         /\ Place(hd, q, k + 1) \in Range(q) \cup {hd}
         /\ Range(q) \subseteq C \ {hd}
         /\ h.next[Place(hd, q, k)] = Place(hd, q, k + 1)
<1>1. /\ q \in Seq(C \ {hd}) /\ DOMAIN h.next = C
      /\ h.next[Place(hd, q, k)] = Place(hd, q, k + 1)
  BY HeapCells DEF IsList
<1>2. Range(q) = {q[i] : i \in 1 .. Len(q)}
  BY <1>1, RangeEquality
<1>3. Range(q) \subseteq C \ {hd}
  BY <1>1, <1>2, ElementOfSeq
<1>. QED  BY <1>1, <1>2, <1>3 DEF Place

\* __list_add puts an item that is in no list into one of them.
LEMMA AddToShelf ==
  ASSUME NEW C, IsFiniteSet(C), NEW H \in SUBSET C, NEW I \in SUBSET C, H \cap I = {},
         NEW h, Shelves(h, C, H, I), NEW hd \in H, NEW q, q = Cells(h, hd),
         NEW n \in I, \A o \in H : n \notin Listed(h, o), NEW k \in 0 .. Len(q),
         NEW a, a = Place(hd, q, k), NEW b, b = Place(hd, q, k + 1),
         NEW g, g = AddBetween(h, n, a, b)
  PROVE  /\ Shelves(g, C, H, I)
         /\ ListBecomes(h, g, H, hd, InsertAt(q, k + 1, n))
<1>1. h \in HeapOn(C) /\ IsList(h, hd, q) /\ Range(q) \subseteq I /\ n \notin Range(q)
  BY DEF Shelves, Listed
<1>2. hd \in C /\ n \in C /\ n # hd
  OBVIOUS
<1>3. /\ a \in Range(q) \cup {hd} /\ b \in Range(q) \cup {hd} /\ Range(q) \subseteq C
      /\ h.next[a] = b
  BY <1>1, <1>2, PlaceIsInList
<1>4. a \in C /\ b \in C /\ a # n /\ b # n
  BY <1>1, <1>2, <1>3
<1>5. IsAlone(h, n)
  BY DEF Shelves
<1>6. g \in HeapOn(C)
  BY <1>1, <1>2, <1>3, <1>4, <1>5, AddKeepsLinked
<1>7. /\ \A c \in C : g.next[c] = (IF c = a THEN n ELSE IF c = n THEN b ELSE h.next[c])
      /\ \A c \in C : g.prev[c] = (IF c = n THEN a ELSE IF c = b THEN n ELSE h.prev[c])
  BY <1>1, <1>2, <1>4, AddWrites
<1>8. IsList(g, hd, InsertAt(q, k + 1, n))
  BY <1>1, <1>2, AddInserts
<1>9. g.next \in [C -> C] /\ h.next \in [C -> C]
  BY <1>1, <1>2, <1>6, HeapCells
<1>10. Cells(g, hd) = InsertAt(q, k + 1, n)
  BY <1>2, <1>8, <1>9, CellsOfList
<1>11. Listed(g, hd) = Range(q) \cup {n}
  <2>1. q \in Seq(C)
    <3>1. q \in Seq(C \ {hd})
      BY <1>1, <1>9 DEF IsList
    <3>. QED  BY <3>1, SeqMonotonic
  <2>2. Range(InsertAt(q, k + 1, n)) = Range(q) \cup {n}
    BY <1>2, <2>1, RangeOfInsert
  <2>. QED  BY <1>10, <2>2 DEF Listed
<1>12. ASSUME NEW o \in H, o # hd
       PROVE  IsList(g, o, Cells(h, o)) /\ Cells(g, o) = Cells(h, o) /\ Listed(g, o) = Listed(h, o)
  <2>. DEFINE r == Cells(h, o)
  <2>1. IsList(h, o, r) /\ Range(r) \subseteq I /\ n \notin Range(r) /\ o \in C
    BY DEF Shelves, Listed
  <2>2. a \notin Range(r)
    <3>1. a = hd => a \notin I
      OBVIOUS
    <3>2. a \in Range(q) => a \notin Range(r)
      BY <1>1, <1>12 DEF Shelves, Listed
    <3>. QED  BY <1>3, <2>1, <3>1, <3>2
  <2>3. a # o /\ n # o
    BY <1>1, <1>3, <1>12
  <2>. HIDE DEF r
  <2>4. Range(r) \subseteq C
    BY <2>1
  <2>5. \A c \in Range(r) \cup {o} : g.next[c] = h.next[c]
    BY <1>7, <2>1, <2>2, <2>3, <2>4
  <2>6. IsList(g, o, r)
    BY <1>1, <1>6, <2>1, <2>5, OtherListsKept
  <2>7. Cells(g, o) = r
    BY <1>9, <2>1, <2>6, CellsOfList
  <2>. QED  BY <2>6, <2>7 DEF r, Listed
<1>13. \A o \in H : IsList(g, o, Cells(g, o)) /\ Listed(g, o) \subseteq I
  <2>1. ASSUME NEW o \in H, o # hd PROVE IsList(g, o, Cells(g, o)) /\ Listed(g, o) \subseteq I
    BY <1>12, <2>1 DEF Shelves
  <2>2. IsList(g, hd, Cells(g, hd)) /\ Listed(g, hd) \subseteq I
    BY <1>1, <1>8, <1>10, <1>11
  <2>. QED  BY <2>1, <2>2
<1>14. ASSUME NEW o1 \in H, NEW o2 \in H, NEW c \in I, c \in Listed(g, o1), c \in Listed(g, o2)
       PROVE  o1 = o2
  <2>1. \A o \in H : c \in Listed(g, o) <=> c \in Listed(h, o) \/ (o = hd /\ c = n)
    BY <1>11, <1>12 DEF Listed
  <2>. QED  BY <1>14, <2>1 DEF Shelves
<1>15. ASSUME NEW c \in I, \A o \in H : c \notin Listed(g, o) PROVE IsAlone(g, c)
  <2>1. \A o \in H : c \notin Listed(h, o)
    BY <1>11, <1>12, <1>15 DEF Listed
  <2>2. c # n /\ c \notin Range(q) /\ c # hd /\ c \in C
    BY <1>11, <1>15
  <2>3. c # a /\ c # b
    BY <1>3, <2>2
  <2>4. IsAlone(h, c)
    BY <2>1 DEF Shelves
  <2>. QED  BY <1>7, <2>2, <2>3, <2>4 DEF IsAlone
<1>16. Shelves(g, C, H, I)
  BY <1>6, <1>13, <1>14, <1>15 DEF Shelves
<1>. QED  BY <1>10, <1>12, <1>16 DEF ListBecomes

\* list_del takes an item out of the list it is in.
LEMMA DelFromShelf ==
  ASSUME NEW C, IsFiniteSet(C), NEW H \in SUBSET C, NEW I \in SUBSET C, H \cap I = {},
         NEW h, Shelves(h, C, H, I), NEW hd \in H, NEW q, q = Cells(h, hd),
         NEW n \in Range(q), NEW g, g = list_del(h, n)
  PROVE  /\ Shelves(g, C, H, I)
         /\ ListBecomes(h, g, H, hd, RemoveFirst(q, n))
<1>1. h \in HeapOn(C) /\ IsList(h, hd, q) /\ Range(q) \subseteq I /\ hd \in C
  BY DEF Shelves, Listed
<1>2. n \in I /\ n \in C /\ \A o \in H \ {hd} : n \notin Listed(h, o)
  BY <1>1 DEF Shelves, Listed
<1>3. g \in HeapOn(C) /\ IsAlone(g, n)
  BY <1>1, <1>2, DelKeepsLinked
<1>4. g.next \in [C -> C] /\ h.next \in [C -> C] /\ DOMAIN h.next = C
  BY <1>1, <1>3, HeapCells
<1>5. q \in Seq(C \ {hd}) /\ IsInjective(q)
  BY <1>1, <1>4 DEF IsList
<1>6. PICK k \in 1 .. Len(q) : n = q[k]
  BY <1>5, RangeEquality
<1>7. Len(q) \in Nat /\ Place(hd, q, k) = n
  BY <1>5, <1>6, LenProperties DEF Place
<1>8. /\ h.next[n] \in Range(q) \cup {hd} /\ h.prev[n] \in Range(q) \cup {hd}
      /\ Range(q) \subseteq C
  <2>1. k \in 0 .. Len(q) /\ k - 1 \in 0 .. Len(q) /\ (k - 1) + 1 = k
    BY <1>7
  <2>2. /\ Place(hd, q, k + 1) \in Range(q) \cup {hd} /\ h.next[n] = Place(hd, q, k + 1)
        /\ Range(q) \subseteq C
    BY <1>1, <1>7, <2>1, PlaceIsInList
  <2>3. /\ Place(hd, q, k - 1) \in Range(q) \cup {hd}
        /\ h.next[Place(hd, q, k - 1)] = Place(hd, q, (k - 1) + 1)
    BY <1>1, <2>1, PlaceIsInList
  <2>4. Place(hd, q, k - 1) \in C
    BY <1>1, <2>2, <2>3
  <2>5. h.prev[h.next[Place(hd, q, k - 1)]] = Place(hd, q, k - 1)
    BY <1>1, <2>4, HeapCells
  <2>. QED  BY <1>7, <2>1, <2>2, <2>3, <2>5
<1>9. /\ \A c \in C : g.next[c] = (IF c = n THEN n
                                   ELSE IF c = h.prev[n] THEN h.next[n] ELSE h.next[c])
      /\ \A c \in C : g.prev[c] = (IF c = n THEN n
                                   ELSE IF c = h.next[n] THEN h.prev[n] ELSE h.prev[c])
  BY <1>1, <1>2, DelWrites
<1>10. IsList(g, hd, RemoveFirst(q, n))
  BY <1>1, <1>6, DelRemoves
<1>11. Cells(g, hd) = RemoveFirst(q, n)
  BY <1>1, <1>4, <1>10, CellsOfList
<1>12. Listed(g, hd) = Range(q) \ {n}
  BY <1>5, <1>11, RemoveFromQueue DEF Listed
<1>13. ASSUME NEW o \in H, o # hd
       PROVE  IsList(g, o, Cells(h, o)) /\ Cells(g, o) = Cells(h, o) /\ Listed(g, o) = Listed(h, o)
  <2>. DEFINE r == Cells(h, o)
  <2>1. IsList(h, o, r) /\ Range(r) \subseteq I /\ n \notin Range(r) /\ o \in C
    BY <1>2, <1>13 DEF Shelves, Listed
  <2>2. h.prev[n] \notin Range(r)
    <3>1. h.prev[n] = hd => h.prev[n] \notin I
      OBVIOUS
    <3>2. h.prev[n] \in Range(q) => h.prev[n] \notin Range(r)
      BY <1>1, <1>13 DEF Shelves, Listed
    <3>. QED  BY <1>8, <2>1, <3>1, <3>2
  <2>3. h.prev[n] # o /\ n # o
    BY <1>1, <1>2, <1>8, <1>13
  <2>. HIDE DEF r
  <2>4. Range(r) \subseteq C
    BY <2>1
  <2>5. \A c \in Range(r) \cup {o} : g.next[c] = h.next[c]
    BY <1>9, <2>1, <2>2, <2>3, <2>4
  <2>6. IsList(g, o, r)
    BY <1>1, <1>3, <2>1, <2>5, OtherListsKept
  <2>7. Cells(g, o) = r
    BY <1>4, <2>1, <2>6, CellsOfList
  <2>. QED  BY <2>6, <2>7 DEF r, Listed
<1>14. \A o \in H : IsList(g, o, Cells(g, o)) /\ Listed(g, o) \subseteq I
  <2>1. ASSUME NEW o \in H, o # hd PROVE IsList(g, o, Cells(g, o)) /\ Listed(g, o) \subseteq I
    BY <1>13, <2>1 DEF Shelves
  <2>2. IsList(g, hd, Cells(g, hd)) /\ Listed(g, hd) \subseteq I
    BY <1>1, <1>10, <1>11, <1>12
  <2>. QED  BY <2>1, <2>2
<1>15. \A o \in H : Listed(g, o) = Listed(h, o) \ {n}
  BY <1>2, <1>12, <1>13 DEF Listed
<1>16. ASSUME NEW c \in I, \A o \in H : c \notin Listed(g, o) PROVE IsAlone(g, c)
  <2>1. CASE c = n
    BY <1>3, <2>1
  <2>2. CASE c # n
    <3>1. \A o \in H : c \notin Listed(h, o)
      BY <1>15, <1>16, <2>2
    <3>2. c \notin Range(q) /\ c # hd /\ c \in C
      BY <3>1 DEF Listed
    <3>3. IsAlone(h, c)
      BY <3>1 DEF Shelves
    <3>. QED  BY <1>8, <1>9, <2>2, <3>2, <3>3 DEF IsAlone
  <2>. QED  BY <2>1, <2>2
<1>17. Shelves(g, C, H, I)
  <2>1. \A o1, o2 \in H : \A c \in I : c \in Listed(g, o1) /\ c \in Listed(g, o2) => o1 = o2
    BY <1>15 DEF Shelves
  <2>. QED  BY <1>3, <1>14, <1>16, <2>1 DEF Shelves
<1>. QED  BY <1>11, <1>13, <1>17 DEF ListBecomes
=============================================================================
