----------------------------- MODULE PcbProofs -----------------------------
(* The lists, the ASL and the process tree are what the nucleus takes them *)
(* to be, for tables of any size.                                          *)
EXTENDS Pcbs, ListProofs

-----------------------------------------------------------------------------
(* The cells of the two tables: heads of lists, and cells that are put in *)
(* lists.                                                                 *)

Heads == {pcbFree_h, semdFree_h, semd_h, ready_queue}
         \cup {p_child(p) : p \in PCB} \cup {s_procq(s) : s \in SEMD}

Items == {"p_list", "p_sib"} \X PCB \cup {"s_link"} \X SEMD

\* The field by which entries hang in a list.
Tag(hd) == IF hd[1] \in {"semdFree_h", "semd_h"} THEN "s_link"
           ELSE IF hd[1] = "p_child" THEN "p_sib" ELSE "p_list"

\* Four things are finitely many.
LEMMA FourAreFinite ==
  ASSUME NEW a, NEW b, NEW c, NEW d
  PROVE  IsFiniteSet({a, b, c, d})
<1>1. IsFiniteSet({a}) /\ IsFiniteSet({b}) /\ IsFiniteSet({c}) /\ IsFiniteSet({d})
  BY FS_Singleton
<1>2. IsFiniteSet({a} \cup {b}) /\ IsFiniteSet({c} \cup {d})
  BY <1>1, FS_Union
<1>3. IsFiniteSet(({a} \cup {b}) \cup ({c} \cup {d}))
  BY <1>2, FS_Union
<1>4. {a, b, c, d} = ({a} \cup {b}) \cup ({c} \cup {d})
  OBVIOUS
<1>. QED  BY <1>3, <1>4

\* The two tables have finitely many cells.
LEMMA CellIsFinite == IsFiniteSet(Cell)
<1>1. IsFiniteSet({"p_list", "p_child", "p_sib"}) /\ IsFiniteSet({"s_link", "s_procq"})
  <2>1. /\ IsFiniteSet({"p_list", "p_child", "p_sib", "p_sib"})
        /\ IsFiniteSet({"s_link", "s_procq", "s_procq", "s_procq"})
    BY FourAreFinite
  <2>2. /\ {"p_list", "p_child", "p_sib", "p_sib"} = {"p_list", "p_child", "p_sib"}
        /\ {"s_link", "s_procq", "s_procq", "s_procq"} = {"s_link", "s_procq"}
    OBVIOUS
  <2>. QED  BY <2>1, <2>2
<1>2. IsFiniteSet({pcbFree_h, semdFree_h, semd_h, ready_queue})
  BY FourAreFinite
<1>3. IsFiniteSet({"p_list", "p_child", "p_sib"} \X PCB)
  BY <1>1, TablesAreArrays, FS_Product
<1>4. IsFiniteSet({"s_link", "s_procq"} \X SEMD)
  BY <1>1, TablesAreArrays, FS_Product
<1>. QED  BY <1>2, <1>3, <1>4, FS_Union DEF Cell

\* A cell is the head of a list or can be put in one, never both.
LEMMA HeadsAndItems ==
  /\ Heads \subseteq Cell /\ Items \subseteq Cell
  /\ \A hd \in Heads : hd \notin Items
<1>1. Items \subseteq Cell
  BY DEF Items, Cell
<1>2. ASSUME NEW p \in PCB PROVE p_child(p) \in Cell /\ p_child(p) \notin Items
  BY DEF Items, Cell, p_child
<1>3. ASSUME NEW s \in SEMD PROVE s_procq(s) \in Cell /\ s_procq(s) \notin Items
  BY DEF Items, Cell, s_procq
<1>4. \A hd \in {pcbFree_h, semdFree_h, semd_h, ready_queue} : hd \in Cell /\ hd \notin Items
  BY DEF Items, Cell, pcbFree_h, semdFree_h, semd_h, ready_queue
<1>. QED  BY <1>1, <1>2, <1>3, <1>4 DEF Heads

\* Each list has its place, and hangs by its field.
LEMMA HeadTags ==
  /\ Tag(pcbFree_h) = "p_list" /\ Tag(ready_queue) = "p_list"
  /\ Tag(semdFree_h) = "s_link" /\ Tag(semd_h) = "s_link"
  /\ \A p \in PCB : Tag(p_child(p)) = "p_sib" /\ p_child(p) \in Heads
  /\ \A s \in SEMD : Tag(s_procq(s)) = "p_list" /\ s_procq(s) \in Heads
  /\ {pcbFree_h, semdFree_h, semd_h, ready_queue} \subseteq Heads
<1>1. /\ Tag(pcbFree_h) = "p_list" /\ Tag(ready_queue) = "p_list"
      /\ Tag(semdFree_h) = "s_link" /\ Tag(semd_h) = "s_link"
  BY DEF Tag, pcbFree_h, ready_queue, semdFree_h, semd_h
<1>2. ASSUME NEW p \in PCB PROVE Tag(p_child(p)) = "p_sib" /\ p_child(p) \in Heads
  <2>1. Tag(p_child(p)) = "p_sib"
    BY DEF Tag, p_child
  <2>. QED  BY <2>1 DEF Heads
<1>3. ASSUME NEW s \in SEMD PROVE Tag(s_procq(s)) = "p_list" /\ s_procq(s) \in Heads
  <2>1. Tag(s_procq(s)) = "p_list"
    BY DEF Tag, s_procq
  <2>. QED  BY <2>1 DEF Heads
<1>4. {pcbFree_h, semdFree_h, semd_h, ready_queue} \subseteq Heads
  BY DEF Heads
<1>. QED  BY <1>1, <1>2, <1>3, <1>4

\* No two lists have the same head.
LEMMA HeadsDiffer ==
  /\ pcbFree_h # ready_queue /\ semdFree_h # semd_h
  /\ \A p \in PCB : p_child(p) \notin {pcbFree_h, semdFree_h, semd_h, ready_queue}
  /\ \A s \in SEMD : s_procq(s) \notin {pcbFree_h, semdFree_h, semd_h, ready_queue}
  /\ \A p \in PCB, s \in SEMD : p_child(p) # s_procq(s)
  /\ \A p, r \in PCB : p_child(p) = p_child(r) => p = r
  /\ \A s, t \in SEMD : s_procq(s) = s_procq(t) => s = t
BY DEF pcbFree_h, ready_queue, semdFree_h, semd_h, p_child, s_procq

-----------------------------------------------------------------------------
(* The entries of a list, for container_of. *)

Mem == [links  : Links(Cell),
        parent : [PCB -> PCB \cup {NULL}],
        semAdd : [PCB -> Key \cup {NULL}],
        key    : [SEMD -> Key \cup {NULL}]]

Owner(hd) == IF Tag(hd) = "s_link" THEN SEMD ELSE PCB

WellFormed(m) ==
  /\ m \in Mem /\ Shelves(m.links, Cell, Heads, Items)
  /\ \A hd \in Heads : \A c \in Listed(m.links, hd) : c[1] = Tag(hd)

\* An entry that is in no list by this field.
Loose(m, tag, x) == \A hd \in Heads : Tag(hd) = tag => x \notin Members(m, hd)

\* There are three fields by which an entry hangs in a list.
LEMMA TagValues == \A hd \in Heads : Tag(hd) \in {"p_list", "p_sib", "s_link"}
BY DEF Tag

\* The cell of an entry can be put in a list.
LEMMA ItemOfEntry ==
  ASSUME NEW hd \in Heads, NEW x \in Owner(hd)
  PROVE  <<Tag(hd), x>> \in Items
<1>1. CASE Tag(hd) = "s_link"
  BY <1>1 DEF Owner, Items
<1>2. CASE Tag(hd) # "s_link"
  <2>1. Tag(hd) \in {"p_list", "p_sib"} /\ x \in PCB
    BY <1>2, TagValues DEF Owner
  <2>. QED  BY <2>1 DEF Items
<1>. QED  BY <1>1, <1>2

\* The entries are the second parts of the cells, the first is the field.
LEMMA EntriesOfList ==
  ASSUME NEW m, WellFormed(m), NEW hd \in Heads, NEW s, s = Cells(m.links, hd)
  PROVE  /\ Entries(m, hd) \in Seq(Owner(hd)) /\ Len(Entries(m, hd)) = Len(s) /\ Len(s) \in Nat
         /\ s \in Seq(Items) /\ IsInjective(s)
         /\ \A i \in 1 .. Len(s) : s[i] = <<Tag(hd), Entries(m, hd)[i]>>
<1>. DEFINE e == Entries(m, hd)
<1>1. /\ IsList(m.links, hd, s) /\ Range(s) \subseteq Items
      /\ \A c \in Range(s) : c[1] = Tag(hd)
  BY DEF WellFormed, Shelves, Listed
<1>2. \E S : s \in Seq(S)
  BY <1>1 DEF IsList
<1>3. s \in Seq(Range(s))
  BY <1>2, SeqOfRange
<1>4. s \in Seq(Items)
  BY <1>1, <1>3, SeqMonotonic
<1>5. Len(s) \in Nat /\ DOMAIN s = 1 .. Len(s) /\ \A i \in 1 .. Len(s) : s[i] \in Range(s)
  BY <1>4, LenProperties, RangeEquality
<1>6. e = [i \in 1 .. Len(s) |-> s[i][2]]
  BY <1>5 DEF Entries
<1>7. ASSUME NEW i \in 1 .. Len(s)
      PROVE  s[i] = <<Tag(hd), s[i][2]>> /\ s[i][2] \in Owner(hd)
  <2>1. s[i] \in Items /\ s[i][1] = Tag(hd)
    BY <1>1, <1>5
  <2>2. CASE s[i] \in {"s_link"} \X SEMD
    <3>1. s[i][1] = "s_link"
      BY <2>2
    <3>. QED  BY <2>1, <2>2, <3>1 DEF Owner
  <2>3. CASE s[i] \in {"p_list", "p_sib"} \X PCB
    <3>1. s[i][1] # "s_link" /\ s[i][2] \in PCB
      BY <2>3
    <3>. QED  BY <2>1, <2>3, <3>1 DEF Owner
  <2>. QED  BY <2>1, <2>2, <2>3 DEF Items
<1>8. e \in [1 .. Len(s) -> Owner(hd)]
  BY <1>6, <1>7
<1>9. e \in Seq(Owner(hd)) /\ Len(e) = Len(s)
  BY <1>5, <1>8
<1>10. \A i \in 1 .. Len(s) : s[i] = <<Tag(hd), e[i]>>
  BY <1>6, <1>7
<1>11. IsInjective(s)
  BY <1>1 DEF IsList
<1>. HIDE DEF e
<1>. QED  BY <1>4, <1>5, <1>9, <1>10, <1>11 DEF e

\* The entries of a list are those of its cells, each once.
LEMMA MembersOfList ==
  ASSUME NEW m, WellFormed(m), NEW hd \in Heads
  PROVE  /\ Entries(m, hd) \in Seq(Owner(hd)) /\ IsInjective(Entries(m, hd))
         /\ Members(m, hd) = Range(Entries(m, hd)) /\ Members(m, hd) \subseteq Owner(hd)
         /\ \A x : x \in Members(m, hd) <=> <<Tag(hd), x>> \in Listed(m.links, hd)
<1>. DEFINE e == Entries(m, hd)
            s == Cells(m.links, hd)
<1>1. /\ e \in Seq(Owner(hd)) /\ Len(e) = Len(s) /\ Len(s) \in Nat
      /\ s \in Seq(Items) /\ IsInjective(s)
      /\ \A i \in 1 .. Len(s) : s[i] = <<Tag(hd), e[i]>>
  BY EntriesOfList
<1>2. Members(m, hd) = {e[i] : i \in DOMAIN e}
  BY DEF Members
<1>3. Listed(m.links, hd) = Range(s)
  BY DEF Listed
<1>. HIDE DEF e, s
<1>4. DOMAIN e = 1 .. Len(s) /\ DOMAIN s = 1 .. Len(s)
  BY <1>1, LenProperties
<1>5. /\ Range(e) = {e[i] : i \in 1 .. Len(s)} /\ Range(s) = {s[i] : i \in 1 .. Len(s)}
  BY <1>1, RangeEquality
<1>6. Members(m, hd) = Range(e)
  BY <1>2, <1>4, <1>5
<1>7. Range(e) \subseteq Owner(hd)
  BY <1>1, <1>5, ElementOfSeq
<1>8. IsInjective(e)
  <2>1. ASSUME NEW i \in 1 .. Len(s), NEW j \in 1 .. Len(s), e[i] = e[j] PROVE i = j
    <3>1. s[i] = s[j]
      BY <1>1, <2>1
    <3>. QED  BY <1>1, <1>4, <3>1 DEF IsInjective
  <2>. QED  BY <1>4, <2>1 DEF IsInjective
<1>9. ASSUME NEW x PROVE x \in Range(e) <=> <<Tag(hd), x>> \in Range(s)
  <2>1. ASSUME x \in Range(e) PROVE <<Tag(hd), x>> \in Range(s)
    BY <1>1, <1>5, <2>1
  <2>2. ASSUME <<Tag(hd), x>> \in Range(s) PROVE x \in Range(e)
    <3>1. PICK i \in 1 .. Len(s) : s[i] = <<Tag(hd), x>>
      BY <1>5, <2>2
    <3>2. <<Tag(hd), e[i]>> = <<Tag(hd), x>>
      BY <1>1, <3>1
    <3>3. e[i] = x
      BY <3>2
    <3>. QED  BY <1>5, <3>3
  <2>. QED  BY <2>1, <2>2
<1>. QED  BY <1>1, <1>3, <1>6, <1>7, <1>8, <1>9 DEF e, s

\* By one field an entry is in one list at most.
LEMMA OneListForEach ==
  ASSUME NEW m, WellFormed(m), NEW hd \in Heads, NEW o \in Heads, Tag(hd) = Tag(o),
         NEW x, x \in Members(m, hd), x \in Members(m, o)
  PROVE  hd = o
<1>1. <<Tag(hd), x>> \in Listed(m.links, hd) /\ <<Tag(hd), x>> \in Listed(m.links, o)
  BY MembersOfList
<1>2. Listed(m.links, hd) \subseteq Items
  BY DEF WellFormed, Shelves
<1>. QED  BY <1>1, <1>2 DEF WellFormed, Shelves

\* list_empty and the first entry.
LEMMA FirstOfList ==
  ASSUME NEW m, WellFormed(m), NEW hd \in Heads
  PROVE  /\ Empty(m, hd) <=> Entries(m, hd) = <<>>
         /\ Empty(m, hd) <=> Members(m, hd) = {}
         /\ Entries(m, hd) # <<>> =>
              /\ First(m, hd) = Head(Entries(m, hd)) /\ First(m, hd) \in Members(m, hd)
              /\ m.links.next[hd] = <<Tag(hd), First(m, hd)>>
<1>. DEFINE e == Entries(m, hd)
            s == Cells(m.links, hd)
<1>1. /\ e \in Seq(Owner(hd)) /\ Len(e) = Len(s) /\ Len(s) \in Nat
      /\ s \in Seq(Items) /\ IsInjective(s)
      /\ \A i \in 1 .. Len(s) : s[i] = <<Tag(hd), e[i]>>
  BY EntriesOfList
<1>2. IsList(m.links, hd, s) /\ m.links \in HeapOn(Cell)
  BY DEF WellFormed, Shelves
<1>3. Members(m, hd) = Range(e)
  BY MembersOfList
<1>4. hd \in Cell /\ hd \notin Items
  BY HeadsAndItems
<1>. HIDE DEF e, s
<1>5. m.links.next[hd] = Place(hd, s, 1)
  <2>1. \A i \in 0 .. Len(s) : m.links.next[Place(hd, s, i)] = Place(hd, s, i + 1)
    BY <1>2 DEF IsList
  <2>2. 0 \in 0 .. Len(s) /\ Place(hd, s, 0) = hd /\ 0 + 1 = 1
    BY <1>1 DEF Place
  <2>. QED  BY <2>1, <2>2
<1>6. Range(e) = {e[i] : i \in 1 .. Len(s)}
  BY <1>1, RangeEquality
<1>7. CASE Len(s) = 0
  <2>1. e = <<>> /\ Range(e) = {}
    BY <1>1, <1>6, <1>7, EmptySeq
  <2>2. m.links.next[hd] = hd
    BY <1>5, <1>7 DEF Place
  <2>. QED  BY <1>3, <2>1, <2>2 DEF e, Empty, list_empty
<1>8. CASE Len(s) # 0
  <2>1. 1 \in 1 .. Len(s)
    BY <1>1, <1>8
  <2>2. m.links.next[hd] = <<Tag(hd), e[1]>> /\ s[1] \in Items
    BY <1>1, <1>5, <2>1, ElementOfSeq DEF Place
  <2>3. m.links.next[hd] # hd
    BY <1>1, <1>4, <2>1, <2>2
  <2>4. e # <<>> /\ Head(e) = e[1] /\ e[1] \in Range(e)
    BY <1>1, <1>6, <1>8, <2>1, EmptySeq
  <2>5. First(m, hd) = e[1]
    BY <2>2 DEF First
  <2>. QED  BY <1>3, <2>2, <2>3, <2>4, <2>5 DEF e, Empty, list_empty
<1>. QED  BY <1>7, <1>8

-----------------------------------------------------------------------------
(* Putting an entry into a list and taking it out. *)

\* The other lists keep their entries.
SameOthers(m, n, hd) == \A o \in Heads \ {hd} : Entries(n, o) = Entries(m, o) /\ Members(n, o) = Members(m, o)

\* The list of hd becomes e, with the members S, and the others stay.
Updated(m, n, hd, e, S) ==
  WellFormed(n) /\ SameOthers(m, n, hd) /\ Entries(n, hd) = e /\ Members(n, hd) = S

\* What holds for the cells holds for the entries.
LEMMA SameCells ==
  ASSUME NEW m, NEW n, NEW o, Cells(n.links, o) = Cells(m.links, o)
  PROVE  Entries(n, o) = Entries(m, o) /\ Members(n, o) = Members(m, o)
BY DEF Entries, Members

\* An entry that is in no list by its field goes to a place of a list.
LEMMA PutEntry ==
  ASSUME NEW m, WellFormed(m), NEW hd \in Heads, NEW x \in Owner(hd), Loose(m, Tag(hd), x),
         NEW k \in 0 .. Len(Entries(m, hd)),
         NEW a, a = Place(hd, Cells(m.links, hd), k),
         NEW b, b = Place(hd, Cells(m.links, hd), k + 1),
         NEW n \in Mem, n.links = AddBetween(m.links, <<Tag(hd), x>>, a, b)
  PROVE  Updated(m, n, hd, InsertAt(Entries(m, hd), k + 1, x), Members(m, hd) \cup {x})
<1>. DEFINE e == Entries(m, hd)
            s == Cells(m.links, hd)
            c == <<Tag(hd), x>>
            g == n.links
<1>1. /\ e \in Seq(Owner(hd)) /\ Len(e) = Len(s) /\ Len(s) \in Nat
      /\ s \in Seq(Items) /\ IsInjective(s)
      /\ \A i \in 1 .. Len(s) : s[i] = <<Tag(hd), e[i]>>
  BY EntriesOfList
<1>2. c \in Items
  BY ItemOfEntry
<1>3. \A o \in Heads : c \notin Listed(m.links, o)
  <2>1. ASSUME NEW o \in Heads, c \in Listed(m.links, o) PROVE FALSE
    <3>1. c[1] = Tag(o) /\ c[1] = Tag(hd)
      BY <2>1 DEF WellFormed
    <3>2. x \in Members(m, o)
      BY <2>1, <3>1, MembersOfList
    <3>. QED  BY <3>1, <3>2 DEF Loose
  <2>. QED  BY <2>1
<1>4. Shelves(m.links, Cell, Heads, Items) /\ k \in 0 .. Len(s)
  BY <1>1 DEF WellFormed
<1>5. Heads \in SUBSET Cell /\ Items \in SUBSET Cell /\ Heads \cap Items = {}
  BY HeadsAndItems
<1>. HIDE DEF e, s, c, g
<1>6. /\ Shelves(g, Cell, Heads, Items) /\ Cells(g, hd) = InsertAt(s, k + 1, c)
      /\ \A o \in Heads \ {hd} : Cells(g, o) = Cells(m.links, o)
  <2>. DEFINE h == m.links
  <2>1. /\ g = AddBetween(h, c, a, b) /\ s = Cells(h, hd)
        /\ a = Place(hd, s, k) /\ b = Place(hd, s, k + 1)
    BY DEF g, c, s
  <2>2. Shelves(h, Cell, Heads, Items) /\ \A o \in Heads : c \notin Listed(h, o)
    BY <1>3, <1>4
  <2>. HIDE DEF h
  <2>3. Shelves(g, Cell, Heads, Items)
    BY <1>2, <1>4, <1>5, <2>1, <2>2, CellIsFinite, AddToShelf
  <2>4. ListBecomes(h, g, Heads, hd, InsertAt(s, k + 1, c))
    BY <1>2, <1>4, <1>5, <2>1, <2>2, CellIsFinite, AddToShelf
  <2>. QED  BY <2>3, <2>4 DEF h, ListBecomes
<1>7. Listed(g, hd) = Listed(m.links, hd) \cup {c}
  BY <1>1, <1>2, <1>4, <1>6, RangeOfInsert DEF Listed, s
<1>8. \A o \in Heads : \A d \in Listed(g, o) : d[1] = Tag(o)
  <2>1. ASSUME NEW o \in Heads, o # hd PROVE Listed(g, o) = Listed(m.links, o)
    BY <1>6, <2>1 DEF Listed
  <2>2. c[1] = Tag(hd)
    BY DEF c
  <2>. QED  BY <1>7, <2>1, <2>2 DEF WellFormed
<1>9. WellFormed(n)
  BY <1>6, <1>8 DEF WellFormed, g
<1>10. SameOthers(m, n, hd)
  BY <1>6, SameCells DEF SameOthers, g
<1>. DEFINE f == Entries(n, hd)
            t == Cells(n.links, hd)
<1>11. /\ f \in Seq(Owner(hd)) /\ Len(f) = Len(t)
       /\ \A i \in 1 .. Len(t) : t[i] = <<Tag(hd), f[i]>>
  BY <1>9, EntriesOfList
<1>12. /\ Len(t) = Len(s) + 1
       /\ \A i \in 1 .. Len(s) + 1 :
            t[i] = (IF i <= k THEN s[i] ELSE IF i = k + 1 THEN c ELSE s[i - 1])
  <2>1. t = InsertAt(s, k + 1, c)
    BY <1>6 DEF g
  <2>2. s \in Seq(Items) /\ k \in 0 .. Len(s) /\ c \in Items
    BY <1>1, <1>2, <1>4
  <2>. HIDE DEF t, s, c
  <2>3. HasInserted(t, Items, s, k, c)
    BY <2>1, <2>2, InsertAtGives
  <2>. QED  BY <2>3 DEF HasInserted
<1>. HIDE DEF f, t
<1>. DEFINE u == InsertAt(e, k + 1, x)
<1>13. /\ u \in Seq(Owner(hd)) /\ Len(u) = Len(s) + 1
       /\ \A i \in 1 .. Len(s) + 1 :
            u[i] = (IF i <= k THEN e[i] ELSE IF i = k + 1 THEN x ELSE e[i - 1])
  <2>1. k \in 0 .. Len(e)
    BY <1>1, <1>4
  <2>2. e \in Seq(Owner(hd)) /\ Len(e) = Len(s)
    BY <1>1
  <2>. HIDE DEF e, s, u
  <2>3. u = InsertAt(e, k + 1, x)
    BY DEF u
  <2>4. HasInserted(u, Owner(hd), e, k, x)
    BY <2>1, <2>2, <2>3, InsertAtGives
  <2>. QED  BY <2>2, <2>4 DEF HasInserted
<1>. HIDE DEF u
<1>14. ASSUME NEW i \in 1 .. Len(s) + 1 PROVE f[i] = u[i]
  <2>1. <<Tag(hd), f[i]>> = t[i]
    BY <1>11, <1>12
  <2>2. t[i] = <<Tag(hd), u[i]>>
    <3>1. CASE i <= k
      <4>1. i \in 1 .. Len(s)
        BY <1>1, <1>4, <3>1
      <4>. QED  BY <1>1, <1>12, <1>13, <3>1, <4>1
    <3>2. CASE i = k + 1
      <4>1. ~(i <= k)
        BY <1>4, <3>2
      <4>. QED  BY <1>12, <1>13, <3>2, <4>1 DEF c
    <3>3. CASE ~(i <= k) /\ i # k + 1
      <4>1. i - 1 \in 1 .. Len(s)
        BY <1>1, <1>4, <3>3
      <4>. QED  BY <1>1, <1>12, <1>13, <3>3, <4>1
    <3>. QED  BY <3>1, <3>2, <3>3
  <2>3. <<Tag(hd), f[i]>> = <<Tag(hd), u[i]>>
    BY <2>1, <2>2
  <2>. QED  BY <2>3
<1>15. f = u
  BY <1>11, <1>12, <1>13, <1>14, SeqEqual
<1>16. Members(n, hd) = Members(m, hd) \cup {x}
  <2>1. Members(n, hd) = Range(f) /\ Members(m, hd) = Range(e)
    BY <1>9, MembersOfList DEF f, e
  <2>2. Range(u) = Range(e) \cup {x}
    <3>1. k \in 0 .. Len(e)
      BY <1>1, <1>4
    <3>. QED  BY <1>1, <3>1, RangeOfInsert DEF u
  <2>. QED  BY <1>15, <2>1, <2>2
<1>. QED  BY <1>9, <1>10, <1>15, <1>16 DEF f, u, e, Updated

\* list_del of the cell of an entry takes it out of its list.
LEMMA TakeEntry ==
  ASSUME NEW m, WellFormed(m), NEW hd \in Heads, NEW x, x \in Members(m, hd),
         NEW n \in Mem, n.links = list_del(m.links, <<Tag(hd), x>>)
  PROVE  Updated(m, n, hd, RemoveFirst(Entries(m, hd), x), Members(m, hd) \ {x})
<1>. DEFINE e == Entries(m, hd)
            s == Cells(m.links, hd)
            c == <<Tag(hd), x>>
            g == n.links
            h == m.links
<1>1. /\ e \in Seq(Owner(hd)) /\ Len(e) = Len(s) /\ Len(s) \in Nat
      /\ s \in Seq(Items) /\ IsInjective(s)
      /\ \A i \in 1 .. Len(s) : s[i] = <<Tag(hd), e[i]>>
  BY EntriesOfList
<1>2. IsInjective(e) /\ Members(m, hd) = Range(e)
  BY MembersOfList
<1>. HIDE DEF e, s, c, g, h
<1>3. PICK k \in 1 .. Len(s) : e[k] = x
  BY <1>1, <1>2, RangeEquality
<1>4. c = s[k]
  BY <1>1, <1>3 DEF c
<1>5. c \in Range(s)
  BY <1>1, <1>4, RangeEquality
<1>6. /\ Shelves(h, Cell, Heads, Items) /\ s = Cells(h, hd) /\ g = list_del(h, c)
  BY DEF WellFormed, h, s, g, c
<1>7. Heads \in SUBSET Cell /\ Items \in SUBSET Cell /\ Heads \cap Items = {}
  BY HeadsAndItems
<1>8. Shelves(g, Cell, Heads, Items)
  BY <1>5, <1>6, <1>7, CellIsFinite, DelFromShelf
<1>9. ListBecomes(h, g, Heads, hd, RemoveFirst(s, c))
  BY <1>5, <1>6, <1>7, CellIsFinite, DelFromShelf
<1>10. Cells(g, hd) = RemoveFirst(s, c) /\ \A o \in Heads \ {hd} : Cells(g, o) = Cells(h, o)
  BY <1>9 DEF ListBecomes
<1>11. Listed(g, hd) = Listed(h, hd) \ {c}
  BY <1>1, <1>6, <1>10, RemoveFromQueue DEF Listed
<1>12. \A o \in Heads : \A d \in Listed(g, o) : d[1] = Tag(o)
  <2>1. ASSUME NEW o \in Heads, o # hd PROVE Listed(g, o) = Listed(h, o)
    BY <1>10, <2>1 DEF Listed
  <2>. QED  BY <1>11, <2>1 DEF WellFormed, h
<1>13. WellFormed(n)
  BY <1>8, <1>12 DEF WellFormed, g
<1>14. SameOthers(m, n, hd)
  BY <1>10, SameCells DEF SameOthers, g, h
<1>. DEFINE f == Entries(n, hd)
            t == Cells(n.links, hd)
            u == RemoveFirst(e, x)
<1>15. /\ f \in Seq(Owner(hd)) /\ Len(f) = Len(t)
       /\ \A i \in 1 .. Len(t) : t[i] = <<Tag(hd), f[i]>>
  BY <1>13, EntriesOfList
<1>16. /\ Len(t) = Len(s) - 1
       /\ \A i \in 1 .. Len(s) - 1 : t[i] = (IF i < k THEN s[i] ELSE s[i + 1])
  <2>1. t = RemoveFirst(s, s[k])
    BY <1>4, <1>10 DEF g
  <2>. HIDE DEF t
  <2>2. s \in Seq(Items) /\ \A i \in 1 .. Len(s) : s[i] = s[k] => i = k
    BY <1>1, LenProperties DEF IsInjective
  <2>. QED  BY <2>1, <2>2, RemoveAtPlace
<1>. HIDE DEF f, t, u
<1>17. /\ u \in Seq(Owner(hd)) /\ Len(u) = Len(s) - 1
       /\ \A i \in 1 .. Len(s) - 1 : u[i] = (IF i < k THEN e[i] ELSE e[i + 1])
  <2>1. u = RemoveFirst(e, e[k])
    BY <1>3 DEF u
  <2>2. e \in Seq(Owner(hd)) /\ \A i \in 1 .. Len(e) : e[i] = e[k] => i = k
    BY <1>1, <1>2, LenProperties DEF IsInjective
  <2>3. k \in 1 .. Len(e) /\ Len(e) = Len(s)
    BY <1>1
  <2>. QED  BY <2>1, <2>2, <2>3, RemoveAtPlace
<1>18. ASSUME NEW i \in 1 .. Len(s) - 1 PROVE f[i] = u[i]
  <2>1. <<Tag(hd), f[i]>> = t[i]
    BY <1>15, <1>16
  <2>2. t[i] = <<Tag(hd), u[i]>>
    <3>1. i \in 1 .. Len(s) /\ i + 1 \in 1 .. Len(s)
      BY <1>1
    <3>2. CASE i < k
      BY <1>1, <1>16, <1>17, <3>1, <3>2
    <3>3. CASE ~(i < k)
      BY <1>1, <1>16, <1>17, <3>1, <3>3
    <3>. QED  BY <3>2, <3>3
  <2>3. <<Tag(hd), f[i]>> = <<Tag(hd), u[i]>>
    BY <2>1, <2>2
  <2>. QED  BY <2>3
<1>19. f = u
  BY <1>15, <1>16, <1>17, <1>18, SeqEqual
<1>20. Members(n, hd) = Members(m, hd) \ {x}
  <2>1. Members(n, hd) = Range(f)
    BY <1>13, MembersOfList DEF f
  <2>2. Range(u) = Range(e) \ {x}
    BY <1>1, <1>2, RemoveFromQueue DEF u
  <2>. QED  BY <1>2, <1>19, <2>1, <2>2
<1>. QED  BY <1>13, <1>14, <1>19, <1>20 DEF f, u, e, Updated

\* list_add and list_add_tail.
LEMMA PutFirst ==
  ASSUME NEW m, WellFormed(m), NEW hd \in Heads, NEW x \in Owner(hd), Loose(m, Tag(hd), x),
         NEW n \in Mem, n.links = list_add(m.links, <<Tag(hd), x>>, hd)
  PROVE  Updated(m, n, hd, InsertAt(Entries(m, hd), 1, x), Members(m, hd) \cup {x})
<1>. DEFINE s == Cells(m.links, hd)
            e == Entries(m, hd)
<1>1. e \in Seq(Owner(hd)) /\ Len(e) = Len(s) /\ Len(s) \in Nat
  BY EntriesOfList
<1>2. IsList(m.links, hd, s)
  BY DEF WellFormed, Shelves
<1>. HIDE DEF s, e
<1>3. 0 \in 0 .. Len(e) /\ 0 + 1 = 1 /\ 0 \in 0 .. Len(s)
  BY <1>1
<1>4. Place(hd, s, 0) = hd /\ m.links.next[hd] = Place(hd, s, 0 + 1)
  <2>1. Place(hd, s, 0) = hd
    BY <1>1 DEF Place
  <2>2. m.links.next[Place(hd, s, 0)] = Place(hd, s, 0 + 1)
    BY <1>2, <1>3 DEF IsList
  <2>. QED  BY <2>1, <2>2
<1>. DEFINE b == Place(hd, s, 0 + 1)
<1>. HIDE DEF b
<1>5. /\ n.links = AddBetween(m.links, <<Tag(hd), x>>, hd, b)
      /\ hd = Place(hd, Cells(m.links, hd), 0) /\ b = Place(hd, Cells(m.links, hd), 0 + 1)
  BY <1>4 DEF list_add, s, b
<1>6. 0 \in 0 .. Len(Entries(m, hd))
  BY <1>3 DEF e
<1>7. Updated(m, n, hd, InsertAt(Entries(m, hd), 0 + 1, x), Members(m, hd) \cup {x})
  BY <1>5, <1>6, PutEntry
<1>. QED  BY <1>3, <1>7

\* Inserting after the last element is appending.
LEMMA InsertLast ==
  ASSUME NEW S, NEW q \in Seq(S), NEW x \in S
  PROVE  InsertAt(q, Len(q) + 1, x) = Append(q, x)
<1>. DEFINE k == Len(q)
            a == Append(q, x)
<1>1. k \in Nat /\ k = Len(q)
  BY LenProperties
<1>2. k \in 0 .. Len(q)
  BY LenProperties
<1>3. a \in Seq(S) /\ Len(a) = Len(q) + 1 /\ a[Len(q) + 1] = x
      /\ \A i \in 1 .. Len(q) : a[i] = q[i]
  BY AppendProperties
<1>. HIDE DEF k, a
<1>. DEFINE r == InsertAt(q, k + 1, x)
<1>4. /\ r \in Seq(S) /\ Len(r) = Len(q) + 1
      /\ \A i \in 1 .. Len(q) + 1 :
           r[i] = (IF i <= k THEN q[i] ELSE IF i = k + 1 THEN x ELSE q[i - 1])
  BY <1>2, InsertAtPlace
<1>. HIDE DEF r
<1>5. \A i \in 1 .. Len(r) : r[i] = a[i]
  BY <1>1, <1>3, <1>4
<1>6. r = a
  BY <1>3, <1>4, <1>5, SeqEqual
<1>. QED  BY <1>1, <1>6 DEF r, a

\* list_add_tail puts an entry at the end of a list.
LEMMA PutLast ==
  ASSUME NEW m, WellFormed(m), NEW hd \in Heads, NEW x \in Owner(hd), Loose(m, Tag(hd), x),
         NEW n \in Mem, n.links = list_add_tail(m.links, <<Tag(hd), x>>, hd)
  PROVE  Updated(m, n, hd, Append(Entries(m, hd), x), Members(m, hd) \cup {x})
<1>. DEFINE s == Cells(m.links, hd)
            e == Entries(m, hd)
<1>1. e \in Seq(Owner(hd)) /\ Len(e) = Len(s) /\ Len(s) \in Nat
  BY EntriesOfList
<1>2. IsList(m.links, hd, s) /\ m.links \in HeapOn(Cell) /\ hd \in Cell
  BY HeadsAndItems DEF WellFormed, Shelves
<1>. HIDE DEF s, e
<1>3. Len(e) \in 0 .. Len(e) /\ Len(s) \in 0 .. Len(s)
  BY <1>1
<1>4. Place(hd, s, Len(s) + 1) = hd /\ m.links.prev[hd] = Place(hd, s, Len(s))
  <2>1. Place(hd, s, Len(s) + 1) = hd
    BY <1>1 DEF Place
  <2>2. m.links.next[Place(hd, s, Len(s))] = Place(hd, s, Len(s) + 1)
    BY <1>2, <1>3, PlaceIsInList
  <2>3. Place(hd, s, Len(s)) \in Cell
    BY <1>2, <1>3, PlaceIsInList
  <2>4. m.links.prev[m.links.next[Place(hd, s, Len(s))]] = Place(hd, s, Len(s))
    BY <1>2, <2>3, HeapCells
  <2>. QED  BY <2>1, <2>2, <2>4
<1>. DEFINE a == Place(hd, s, Len(s))
<1>. HIDE DEF a
<1>5. /\ n.links = AddBetween(m.links, <<Tag(hd), x>>, a, hd)
      /\ a = Place(hd, Cells(m.links, hd), Len(Entries(m, hd)))
      /\ hd = Place(hd, Cells(m.links, hd), Len(Entries(m, hd)) + 1)
  BY <1>1, <1>4 DEF list_add_tail, s, a, e
<1>6. Len(Entries(m, hd)) \in 0 .. Len(Entries(m, hd))
  BY <1>3 DEF e
<1>7. Updated(m, n, hd, InsertAt(Entries(m, hd), Len(Entries(m, hd)) + 1, x), Members(m, hd) \cup {x})
  BY <1>5, <1>6, PutEntry
<1>8. InsertAt(Entries(m, hd), Len(Entries(m, hd)) + 1, x) = Append(Entries(m, hd), x)
  BY <1>1, InsertLast DEF e
<1>. QED  BY <1>7, <1>8

\* Removing the first element leaves the tail.
LEMMA RemoveHead ==
  ASSUME NEW S, NEW q \in Seq(S), q # <<>>, IsInjective(q)
  PROVE  RemoveFirst(q, Head(q)) = Tail(q)
<1>1. Len(q) \in Nat \ {0} /\ Head(q) = q[1] /\ DOMAIN q = 1 .. Len(q)
  BY EmptySeq, LenProperties
<1>2. 1 \in 1 .. Len(q) /\ \A i \in 1 .. Len(q) : q[i] = q[1] => i = 1
  BY <1>1 DEF IsInjective
<1>. DEFINE r == RemoveFirst(q, q[1])
            t == Tail(q)
<1>3. /\ r \in Seq(S) /\ Len(r) = Len(q) - 1
      /\ \A i \in 1 .. Len(q) - 1 : r[i] = (IF i < 1 THEN q[i] ELSE q[i + 1])
  BY <1>2, RemoveAtPlace
<1>4. /\ t \in Seq(S) /\ Len(t) = Len(q) - 1
      /\ \A i \in 1 .. Len(t) : t[i] = q[i + 1]
  BY HeadTailProperties
<1>. HIDE DEF r, t
<1>5. \A i \in 1 .. Len(r) : r[i] = t[i]
  BY <1>1, <1>3, <1>4
<1>6. r = t
  BY <1>3, <1>4, <1>5, SeqEqual
<1>. QED  BY <1>1, <1>6 DEF r, t

\* Removing what is not there changes nothing.
LEMMA RemoveNothing ==
  ASSUME NEW S, NEW q \in Seq(S), NEW x, x \notin Range(q)
  PROVE  RemoveFirst(q, x) = q
<1>1. \A i \in 1 .. Len(q) : q[i] # x
  BY RangeEquality
<1>. QED  BY <1>1 DEF RemoveFirst

\* Everything but the links.
SameFields(m, n) == n.parent = m.parent /\ n.semAdd = m.semAdd /\ n.key = m.key

\* A memory with other links is a memory.
LEMMA NewLinks ==
  ASSUME NEW m \in Mem, NEW g \in Links(Cell), NEW n, n = [m EXCEPT !.links = g]
  PROVE  n \in Mem /\ n.links = g /\ SameFields(m, n)
BY DEF Mem, SameFields

\* The lists are those of the links, whatever the other fields hold.
LEMMA SameLinks ==
  ASSUME NEW m, WellFormed(m), NEW n \in Mem, n.links = m.links
  PROVE  WellFormed(n) /\ \A hd \in Heads : Entries(n, hd) = Entries(m, hd) /\ Members(n, hd) = Members(m, hd)
BY DEF WellFormed, Entries, Members

\* The operations of listx.h lead from a heap to links between its cells.
LEMMA LinksOfCells ==
  ASSUME NEW h \in HeapOn(Cell), NEW n \in Cell, NEW hd \in Cell
  PROVE  /\ list_add(h, n, hd) \in Links(Cell) /\ list_add_tail(h, n, hd) \in Links(Cell)
         /\ list_del(h, n) \in Links(Cell)
<1>1. h.next[hd] \in Cell /\ h.prev[hd] \in Cell
  BY HeapCells
<1>2. list_add(h, n, hd) \in Links(Cell)
  BY <1>1, AddWrites DEF list_add
<1>3. list_add_tail(h, n, hd) \in Links(Cell)
  BY <1>1, AddWrites DEF list_add_tail
<1>4. list_del(h, n) \in Links(Cell)
  BY DelWrites
<1>. QED  BY <1>2, <1>3, <1>4

\* A memory and its links.
LEMMA MemoryOf ==
  ASSUME NEW m, WellFormed(m)
  PROVE  m \in Mem /\ m.links \in HeapOn(Cell) /\ m.links \in Links(Cell)
BY DEF WellFormed, Shelves, HeapOn

\* insertProcQ puts a process at the end of a queue.
LEMMA insertProcQ_Appends ==
  ASSUME NEW m, WellFormed(m), NEW hd \in Heads, Tag(hd) = "p_list", NEW p \in PCB,
         Loose(m, "p_list", p), NEW n, n = insertProcQ(m, hd, p)
  PROVE  /\ Updated(m, n, hd, Append(Entries(m, hd), p), Members(m, hd) \cup {p})
         /\ SameFields(m, n)
<1>1. p \in Owner(hd) /\ p_list(p) = <<Tag(hd), p>>
  BY DEF Owner, p_list
<1>2. p_list(p) \in Cell /\ hd \in Cell
  BY <1>1, ItemOfEntry, HeadsAndItems
<1>. DEFINE g == list_add_tail(m.links, p_list(p), hd)
<1>3. g \in Links(Cell) /\ n = [m EXCEPT !.links = g] /\ m \in Mem
  BY <1>2, LinksOfCells, MemoryOf DEF insertProcQ
<1>. HIDE DEF g
<1>4. n \in Mem /\ n.links = g /\ SameFields(m, n)
  BY <1>3, NewLinks
<1>5. n.links = list_add_tail(m.links, <<Tag(hd), p>>, hd)
  BY <1>1, <1>4 DEF g
<1>6. Loose(m, Tag(hd), p)
  OBVIOUS
<1>. QED  BY <1>1, <1>4, <1>5, <1>6, PutLast

\* freePcb puts a process at the front of the free list.
LEMMA freePcb_Frees ==
  ASSUME NEW m, WellFormed(m), NEW p \in PCB, Loose(m, "p_list", p), NEW n, n = freePcb(m, p)
  PROVE  /\ Updated(m, n, pcbFree_h, InsertAt(Entries(m, pcbFree_h), 1, p), Members(m, pcbFree_h) \cup {p})
         /\ SameFields(m, n)
<1>. DEFINE hd == pcbFree_h
<1>0. hd \in Heads /\ Tag(hd) = "p_list"
  BY HeadTags
<1>. HIDE DEF hd
<1>1. p \in Owner(hd) /\ p_list(p) = <<Tag(hd), p>>
  BY <1>0 DEF Owner, p_list
<1>2. p_list(p) \in Cell /\ hd \in Cell
  BY <1>0, <1>1, ItemOfEntry, HeadsAndItems
<1>. DEFINE g == list_add(m.links, p_list(p), hd)
<1>3. g \in Links(Cell) /\ n = [m EXCEPT !.links = g] /\ m \in Mem
  BY <1>2, LinksOfCells, MemoryOf DEF freePcb, hd
<1>. HIDE DEF g
<1>4. n \in Mem /\ n.links = g /\ SameFields(m, n)
  BY <1>3, NewLinks
<1>5. n.links = list_add(m.links, <<Tag(hd), p>>, hd)
  BY <1>1, <1>4 DEF g
<1>6. Loose(m, Tag(hd), p)
  BY <1>0
<1>7. Updated(m, n, hd, InsertAt(Entries(m, hd), 1, p), Members(m, hd) \cup {p})
  BY <1>0, <1>1, <1>4, <1>5, <1>6, PutFirst
<1>. QED  BY <1>4, <1>7 DEF hd

\* list_del of an entry of a list, in a memory.
LEMMA DeleteEntry ==
  ASSUME NEW m, WellFormed(m), NEW hd \in Heads, NEW x, x \in Members(m, hd),
         NEW n, n = [m EXCEPT !.links = list_del(@, <<Tag(hd), x>>)]
  PROVE  /\ Updated(m, n, hd, RemoveFirst(Entries(m, hd), x), Members(m, hd) \ {x})
         /\ SameFields(m, n)
<1>1. x \in Owner(hd)
  BY MembersOfList
<1>. DEFINE c == <<Tag(hd), x>>
<1>2. c \in Cell
  BY <1>1, ItemOfEntry, HeadsAndItems
<1>. HIDE DEF c
<1>. DEFINE g == list_del(m.links, c)
<1>3. g \in Links(Cell) /\ n = [m EXCEPT !.links = g] /\ m \in Mem
  BY <1>2, LinksOfCells, MemoryOf DEF c
<1>. HIDE DEF g
<1>4. n \in Mem /\ n.links = g /\ SameFields(m, n)
  BY <1>3, NewLinks
<1>5. n.links = list_del(m.links, <<Tag(hd), x>>)
  BY <1>4 DEF g, c
<1>6. Updated(m, n, hd, RemoveFirst(Entries(m, hd), x), Members(m, hd) \ {x})
  BY <1>4, <1>5, TakeEntry
<1>. QED  BY <1>4, <1>6

\* removeProcQ takes the first process of a queue.
LEMMA removeProcQ_TakesFirst ==
  ASSUME NEW m, WellFormed(m), NEW hd \in Heads, Entries(m, hd) # <<>>,
         NEW n, n = removeProcQ(m, hd)
  PROVE  /\ Updated(m, n, hd, Tail(Entries(m, hd)), Members(m, hd) \ {First(m, hd)})
         /\ SameFields(m, n)
<1>. DEFINE x == First(m, hd)
<1>1. /\ x = Head(Entries(m, hd)) /\ x \in Members(m, hd)
      /\ m.links.next[hd] = <<Tag(hd), x>>
  BY FirstOfList
<1>. HIDE DEF x
<1>2. n = [m EXCEPT !.links = list_del(@, <<Tag(hd), x>>)]
  BY <1>1 DEF removeProcQ
<1>3. Updated(m, n, hd, RemoveFirst(Entries(m, hd), x), Members(m, hd) \ {x}) /\ SameFields(m, n)
  BY <1>1, <1>2, DeleteEntry
<1>4. RemoveFirst(Entries(m, hd), x) = Tail(Entries(m, hd))
  BY <1>1, MembersOfList, RemoveHead
<1>. QED  BY <1>3, <1>4 DEF x

\* outProcQ takes a process out of a queue, if it is there.
LEMMA outProcQ_Removes ==
  ASSUME NEW m, WellFormed(m), NEW hd \in Heads, Tag(hd) = "p_list", NEW p \in PCB,
         NEW n, n = outProcQ(m, hd, p)
  PROVE  /\ Updated(m, n, hd, RemoveFirst(Entries(m, hd), p), Members(m, hd) \ {p})
         /\ SameFields(m, n)
<1>1. CASE p \in Members(m, hd)
  <2>1. n = [m EXCEPT !.links = list_del(@, <<Tag(hd), p>>)]
    BY <1>1 DEF outProcQ, p_list
  <2>. QED  BY <1>1, <2>1, DeleteEntry
<1>2. CASE p \notin Members(m, hd)
  <2>1. n = m
    BY <1>2 DEF outProcQ
  <2>2. Entries(m, hd) \in Seq(Owner(hd)) /\ p \notin Range(Entries(m, hd))
    BY <1>2, MembersOfList
  <2>3. RemoveFirst(Entries(m, hd), p) = Entries(m, hd)
    BY <2>2, RemoveNothing
  <2>. QED  BY <1>2, <2>1, <2>3 DEF Updated, SameOthers, SameFields
<1>. QED  BY <1>1, <1>2

\* INIT_LIST_HEAD does nothing to a cell that is alone.
LEMMA InitOfAlone ==
  ASSUME NEW h \in Links(Cell), NEW c \in Cell, IsAlone(h, c)
  PROVE  INIT_LIST_HEAD(h, c) = h
<1>1. h.next \in [Cell -> Cell] /\ h.prev \in [Cell -> Cell] /\ h = [next |-> h.next, prev |-> h.prev]
  BY DEF Links
<1>2. [h.next EXCEPT ![c] = c] = h.next /\ [h.prev EXCEPT ![c] = c] = h.prev
  BY <1>1 DEF IsAlone
<1>3. [h EXCEPT !.next[c] = c] = h
  BY <1>1, <1>2
<1>4. [h EXCEPT !.prev[c] = c] = h
  BY <1>1, <1>2
<1>5. INIT_LIST_HEAD(h, c) = [[h EXCEPT !.next[c] = c] EXCEPT !.prev[c] = c]
  BY DEF INIT_LIST_HEAD
<1>. QED  BY <1>3, <1>4, <1>5

\* A head without entries is alone, and so is an entry in no list.
LEMMA EmptyIsAlone ==
  ASSUME NEW m, WellFormed(m), NEW hd \in Heads, Members(m, hd) = {}
  PROVE  IsAlone(m.links, hd)
<1>1. m.links.next[hd] = hd
  BY FirstOfList DEF Empty, list_empty
<1>2. m.links.prev[m.links.next[hd]] = hd
  BY MemoryOf, HeapCells, HeadsAndItems
<1>. QED  BY <1>1, <1>2 DEF IsAlone

\* The cell of an entry that is in no list is alone.
LEMMA LooseIsAlone ==
  ASSUME NEW m, WellFormed(m), NEW tag, NEW x, <<tag, x>> \in Items, Loose(m, tag, x)
  PROVE  IsAlone(m.links, <<tag, x>>)
<1>. DEFINE c == <<tag, x>>
<1>1. ASSUME NEW o \in Heads, c \in Listed(m.links, o) PROVE FALSE
  <2>1. c[1] = Tag(o) /\ c[1] = tag
    BY <1>1 DEF WellFormed
  <2>2. x \in Members(m, o)
    BY <1>1, <2>1, MembersOfList
  <2>. QED  BY <2>1, <2>2 DEF Loose
<1>. HIDE DEF c
<1>2. \A o \in Heads : c \notin Listed(m.links, o)
  BY <1>1
<1>3. c \in Items
  BY DEF c
<1>4. IsAlone(m.links, c)
  BY <1>2, <1>3 DEF WellFormed, Shelves
<1>. QED  BY <1>4 DEF c

\* Assigning one field.
ParentBecomes(m, n, p, v) ==
  n.parent = [m.parent EXCEPT ![p] = v] /\ n.semAdd = m.semAdd /\ n.key = m.key

SemAddBecomes(m, n, p, v) ==
  n.semAdd = [m.semAdd EXCEPT ![p] = v] /\ n.parent = m.parent /\ n.key = m.key

KeyBecomes(m, n, s, v) ==
  n.key = [m.key EXCEPT ![s] = v] /\ n.parent = m.parent /\ n.semAdd = m.semAdd

PcbReset(m, n, p) ==
  /\ n.parent = [m.parent EXCEPT ![p] = NULL]
  /\ n.semAdd = [m.semAdd EXCEPT ![p] = NULL] /\ n.key = m.key

\* The lists of m and n are the same.
SameLists(m, n) == n.links = m.links

\* Assigning p_parent changes no list.
LEMMA SetParent ==
  ASSUME NEW m \in Mem, NEW p \in PCB, NEW v \in PCB \cup {NULL},
         NEW n, n = [m EXCEPT !.parent[p] = v]
  PROVE  n \in Mem /\ SameLists(m, n) /\ ParentBecomes(m, n, p, v)
<1>. DEFINE w == [m.parent EXCEPT ![p] = v]
<1>1. w \in [PCB -> PCB \cup {NULL}]
  BY DEF Mem
<1>2. n = [m EXCEPT !.parent = w]
  OBVIOUS
<1>. HIDE DEF w
<1>3. n \in Mem /\ n.links = m.links /\ n.parent = w /\ n.semAdd = m.semAdd /\ n.key = m.key
  BY <1>1, <1>2 DEF Mem
<1>. QED  BY <1>3 DEF w, ParentBecomes, SameLists

\* Assigning p_semAdd changes no list.
LEMMA SetSemAdd ==
  ASSUME NEW m \in Mem, NEW p \in PCB, NEW v \in Key \cup {NULL},
         NEW n, n = [m EXCEPT !.semAdd[p] = v]
  PROVE  n \in Mem /\ SameLists(m, n) /\ SemAddBecomes(m, n, p, v)
<1>. DEFINE w == [m.semAdd EXCEPT ![p] = v]
<1>1. w \in [PCB -> Key \cup {NULL}]
  BY DEF Mem
<1>2. n = [m EXCEPT !.semAdd = w]
  OBVIOUS
<1>. HIDE DEF w
<1>3. n \in Mem /\ n.links = m.links /\ n.semAdd = w /\ n.parent = m.parent /\ n.key = m.key
  BY <1>1, <1>2 DEF Mem
<1>. QED  BY <1>3 DEF w, SemAddBecomes, SameLists

\* Assigning s_key changes no list.
LEMMA SetKey ==
  ASSUME NEW m \in Mem, NEW s \in SEMD, NEW v \in Key \cup {NULL},
         NEW n, n = [m EXCEPT !.key[s] = v]
  PROVE  n \in Mem /\ SameLists(m, n) /\ KeyBecomes(m, n, s, v)
<1>. DEFINE w == [m.key EXCEPT ![s] = v]
<1>1. w \in [SEMD -> Key \cup {NULL}]
  BY DEF Mem
<1>2. n = [m EXCEPT !.key = w]
  OBVIOUS
<1>. HIDE DEF w
<1>3. n \in Mem /\ n.links = m.links /\ n.key = w /\ n.parent = m.parent /\ n.semAdd = m.semAdd
  BY <1>1, <1>2 DEF Mem
<1>. QED  BY <1>3 DEF w, KeyBecomes, SameLists

\* A change of the fields after a change of a list.
LEMMA UpdatedThenSame ==
  ASSUME NEW m, NEW d, NEW n \in Mem, NEW hd \in Heads, NEW e, NEW S,
         Updated(m, d, hd, e, S), SameLists(d, n)
  PROVE  Updated(m, n, hd, e, S)
<1>1. WellFormed(d) /\ n.links = d.links
  BY DEF Updated, SameLists
<1>2. /\ WellFormed(n)
      /\ \A o \in Heads : Entries(n, o) = Entries(d, o) /\ Members(n, o) = Members(d, o)
  BY <1>1, SameLinks
<1>. QED  BY <1>2 DEF Updated, SameOthers

\* A head without entries, or an entry in no list, is initialised in vain.
LEMMA allocPcb_Takes ==
  ASSUME NEW m, WellFormed(m), Entries(m, pcbFree_h) # <<>>,
         NEW p, p = First(m, pcbFree_h),
         Members(m, p_child(p)) = {}, Loose(m, "p_sib", p),
         NEW n, n = allocPcb(m)
  PROVE  /\ p \in PCB /\ p \in Members(m, pcbFree_h)
         /\ Updated(m, n, pcbFree_h, Tail(Entries(m, pcbFree_h)), Members(m, pcbFree_h) \ {p})
         /\ PcbReset(m, n, p)
<1>. DEFINE hd == pcbFree_h
<1>1. hd \in Heads /\ Tag(hd) = "p_list"
  BY HeadTags
<1>2. p \in Members(m, hd) /\ m.links.next[hd] = <<Tag(hd), p>>
  BY <1>1, FirstOfList
<1>3. p \in PCB
  BY <1>1, <1>2, MembersOfList DEF Owner
<1>. DEFINE d == removeProcQ(m, hd)
<1>4. /\ Updated(m, d, hd, Tail(Entries(m, hd)), Members(m, hd) \ {p}) /\ SameFields(m, d)
  BY <1>1, removeProcQ_TakesFirst
<1>5. d.links = list_del(m.links, p_list(p))
  <2>1. d = [m EXCEPT !.links = list_del(@, p_list(p))]
    BY <1>1, <1>2 DEF removeProcQ, p_list
  <2>. QED  BY <2>1, MemoryOf DEF Mem
<1>. HIDE DEF d
<1>6. WellFormed(d) /\ d \in Mem /\ d.links \in Links(Cell)
  BY <1>4, MemoryOf DEF Updated
<1>7. p_child(p) \in Heads /\ p_child(p) # hd /\ Tag(p_child(p)) = "p_sib"
  BY <1>3, HeadTags, HeadsDiffer
<1>8. Members(d, p_child(p)) = {}
  BY <1>4, <1>7 DEF Updated, SameOthers
<1>9. Loose(d, "p_sib", p)
  BY <1>1, <1>4 DEF Updated, SameOthers, Loose
<1>10. IsAlone(d.links, p_child(p)) /\ p_child(p) \in Cell
  BY <1>6, <1>7, <1>8, EmptyIsAlone, HeadsAndItems
<1>11. IsAlone(d.links, p_sib(p)) /\ p_sib(p) \in Cell
  <2>1. <<"p_sib", p>> \in Items
    BY <1>3 DEF Items
  <2>. QED  BY <1>6, <1>9, <2>1, LooseIsAlone, HeadsAndItems DEF p_sib
<1>12. INIT_LIST_HEAD(INIT_LIST_HEAD(list_del(m.links, p_list(p)), p_child(p)), p_sib(p)) = d.links
  <2>. DEFINE g == d.links
  <2>1. g \in Links(Cell) /\ IsAlone(g, p_child(p)) /\ IsAlone(g, p_sib(p))
    BY <1>6, <1>10, <1>11
  <2>. HIDE DEF g
  <2>2. INIT_LIST_HEAD(g, p_child(p)) = g /\ INIT_LIST_HEAD(g, p_sib(p)) = g
    BY <1>10, <1>11, <2>1, InitOfAlone
  <2>. QED  BY <1>5, <2>2 DEF g
<1>13. n = [m EXCEPT !.links = d.links, !.parent[p] = NULL, !.semAdd[p] = NULL]
  BY <1>12 DEF allocPcb
<1>14. n \in Mem /\ SameLists(d, n) /\ PcbReset(m, n, p)
  <2>. DEFINE a == [m EXCEPT !.links = d.links]
              b == [a EXCEPT !.parent[p] = NULL]
  <2>1. m \in Mem /\ n = [b EXCEPT !.semAdd[p] = NULL]
    BY <1>13, MemoryOf
  <2>2. a \in Mem /\ a.links = d.links /\ SameFields(m, a)
    <3>. DEFINE g == d.links
    <3>1. g \in Links(Cell) /\ a = [m EXCEPT !.links = g]
      BY <1>6
    <3>. HIDE DEF g, a
    <3>2. a \in Mem /\ a.links = g /\ SameFields(m, a)
      BY <2>1, <3>1, NewLinks
    <3>. QED  BY <3>2 DEF g
  <2>. HIDE DEF a
  <2>3. b \in Mem /\ SameLists(a, b) /\ ParentBecomes(a, b, p, NULL)
    BY <1>3, <2>2, SetParent
  <2>. HIDE DEF b
  <2>4. n \in Mem /\ SameLists(b, n) /\ SemAddBecomes(b, n, p, NULL)
    BY <1>3, <2>1, <2>3, SetSemAdd
  <2>. QED  BY <2>2, <2>3, <2>4 DEF SameFields, SameLists, ParentBecomes, SemAddBecomes, PcbReset
<1>15. Updated(m, n, hd, Tail(Entries(m, hd)), Members(m, hd) \ {p})
  BY <1>1, <1>4, <1>14, UpdatedThenSame
<1>. QED  BY <1>2, <1>3, <1>14, <1>15

\* insertChild makes a process the last child of another.
LEMMA insertChild_Appends ==
  ASSUME NEW m, WellFormed(m), NEW prnt \in PCB, NEW p \in PCB, Loose(m, "p_sib", p),
         NEW n, n = insertChild(m, prnt, p)
  PROVE  /\ Updated(m, n, p_child(prnt), Append(Entries(m, p_child(prnt)), p),
                    Members(m, p_child(prnt)) \cup {p})
         /\ ParentBecomes(m, n, p, prnt)
<1>. DEFINE hd == p_child(prnt)
<1>1. hd \in Heads /\ Tag(hd) = "p_sib"
  BY HeadTags
<1>. HIDE DEF hd
<1>2. p \in Owner(hd) /\ p_sib(p) = <<Tag(hd), p>>
  BY <1>1 DEF Owner, p_sib
<1>3. p_sib(p) \in Cell /\ hd \in Cell
  BY <1>1, <1>2, ItemOfEntry, HeadsAndItems
<1>. DEFINE g == list_add_tail(m.links, p_sib(p), hd)
            a == [m EXCEPT !.links = g]
<1>4. g \in Links(Cell) /\ m \in Mem
  BY <1>3, LinksOfCells, MemoryOf
<1>5. n = [m EXCEPT !.parent[p] = prnt, !.links = g]
  BY DEF insertChild, hd
<1>6. g = list_add_tail(m.links, <<Tag(hd), p>>, hd)
  BY <1>2
<1>. HIDE DEF g
<1>7. n = [a EXCEPT !.parent[p] = prnt]
  BY <1>4, <1>5 DEF Mem
<1>8. a \in Mem /\ a.links = g /\ SameFields(m, a)
  BY <1>4, NewLinks
<1>. HIDE DEF a
<1>9. a.links = list_add_tail(m.links, <<Tag(hd), p>>, hd) /\ Loose(m, Tag(hd), p)
  BY <1>1, <1>6, <1>8
<1>10. Updated(m, a, hd, Append(Entries(m, hd), p), Members(m, hd) \cup {p})
  BY <1>1, <1>2, <1>8, <1>9, PutLast
<1>11. n \in Mem /\ SameLists(a, n) /\ ParentBecomes(a, n, p, prnt)
  BY <1>7, <1>8, SetParent
<1>12. ParentBecomes(m, n, p, prnt)
  BY <1>8, <1>11 DEF ParentBecomes, SameFields
<1>13. Updated(m, n, hd, Append(Entries(m, hd), p), Members(m, hd) \cup {p})
  BY <1>1, <1>10, <1>11, UpdatedThenSame
<1>. QED  BY <1>12, <1>13 DEF hd

\* list_del of an entry, and its p_parent reset.
LEMMA OrphanEntry ==
  ASSUME NEW m, WellFormed(m), NEW hd \in Heads, NEW x, x \in Members(m, hd), x \in PCB,
         NEW n, n = [m EXCEPT !.parent[x] = NULL, !.links = list_del(@, <<Tag(hd), x>>)]
  PROVE  /\ Updated(m, n, hd, RemoveFirst(Entries(m, hd), x), Members(m, hd) \ {x})
         /\ ParentBecomes(m, n, x, NULL)
<1>. DEFINE d == [m EXCEPT !.links = list_del(@, <<Tag(hd), x>>)]
<1>1. /\ Updated(m, d, hd, RemoveFirst(Entries(m, hd), x), Members(m, hd) \ {x})
      /\ SameFields(m, d)
  BY DeleteEntry
<1>2. d \in Mem /\ WellFormed(d) /\ m \in Mem
  BY <1>1, MemoryOf DEF Updated
<1>3. n = [d EXCEPT !.parent[x] = NULL]
  BY <1>2 DEF Mem
<1>. HIDE DEF d
<1>4. NULL \in PCB \cup {NULL}
  OBVIOUS
<1>5. n \in Mem /\ SameLists(d, n) /\ ParentBecomes(d, n, x, NULL)
  BY <1>2, <1>3, <1>4, SetParent
<1>6. ParentBecomes(m, n, x, NULL)
  BY <1>1, <1>5 DEF ParentBecomes, SameFields
<1>7. Updated(m, n, hd, RemoveFirst(Entries(m, hd), x), Members(m, hd) \ {x})
  BY <1>1, <1>5, UpdatedThenSame
<1>. QED  BY <1>6, <1>7

\* removeChild takes the first child of a process from it.
LEMMA removeChild_TakesFirst ==
  ASSUME NEW m, WellFormed(m), NEW prnt \in PCB, Members(m, p_child(prnt)) # {},
         NEW x, x = First(m, p_child(prnt)), NEW n, n = removeChild(m, prnt)
  PROVE  /\ x \in PCB /\ x \in Members(m, p_child(prnt))
         /\ Updated(m, n, p_child(prnt), RemoveFirst(Entries(m, p_child(prnt)), x),
                    Members(m, p_child(prnt)) \ {x})
         /\ ParentBecomes(m, n, x, NULL)
<1>. DEFINE hd == p_child(prnt)
<1>1. hd \in Heads /\ Tag(hd) = "p_sib"
  BY HeadTags
<1>2. Entries(m, hd) # <<>>
  BY <1>1, FirstOfList
<1>3. x \in Members(m, hd) /\ m.links.next[hd] = <<Tag(hd), x>>
  BY <1>1, <1>2, FirstOfList
<1>4. x \in PCB
  BY <1>1, <1>3, MembersOfList DEF Owner
<1>5. n = [m EXCEPT !.parent[x] = NULL, !.links = list_del(@, m.links.next[hd])]
  BY MemoryOf DEF removeChild, Mem
<1>6. n = [m EXCEPT !.parent[x] = NULL, !.links = list_del(@, <<Tag(hd), x>>)]
  BY <1>3, <1>5
<1>. HIDE DEF hd
<1>7. /\ Updated(m, n, hd, RemoveFirst(Entries(m, hd), x), Members(m, hd) \ {x})
      /\ ParentBecomes(m, n, x, NULL)
  BY <1>1, <1>3, <1>4, <1>6, OrphanEntry
<1>. QED  BY <1>3, <1>4, <1>7 DEF hd

\* outChild takes a process from its parent, if it has one.
LEMMA outChild_Orphans ==
  ASSUME NEW m, WellFormed(m), NEW p \in PCB, NEW r, r = m.parent[p],
         NEW n, n = outChild(m, p)
  PROVE  /\ (r # NULL /\ p \in Members(m, p_child(r)) =>
               /\ r \in PCB /\ ParentBecomes(m, n, p, NULL)
               /\ Updated(m, n, p_child(r), RemoveFirst(Entries(m, p_child(r)), p),
                          Members(m, p_child(r)) \ {p}))
         /\ (~(r # NULL /\ p \in Members(m, p_child(r))) => n = m)
<1>1. ASSUME r # NULL, p \in Members(m, p_child(r))
      PROVE  /\ r \in PCB /\ ParentBecomes(m, n, p, NULL)
             /\ Updated(m, n, p_child(r), RemoveFirst(Entries(m, p_child(r)), p),
                        Members(m, p_child(r)) \ {p})
  <2>1. r \in PCB
    BY <1>1, MemoryOf DEF Mem
  <2>. DEFINE hd == p_child(r)
  <2>2. hd \in Heads /\ Tag(hd) = "p_sib" /\ p \in Members(m, hd)
    BY <1>1, <2>1, HeadTags
  <2>3. n = [m EXCEPT !.parent[p] = NULL, !.links = list_del(@, <<Tag(hd), p>>)]
    BY <1>1, <2>2 DEF outChild, p_sib
  <2>. HIDE DEF hd
  <2>4. /\ Updated(m, n, hd, RemoveFirst(Entries(m, hd), p), Members(m, hd) \ {p})
        /\ ParentBecomes(m, n, p, NULL)
    BY <2>2, <2>3, OrphanEntry
  <2>. QED  BY <2>1, <2>4 DEF hd
<1>2. ASSUME ~(r # NULL /\ p \in Members(m, p_child(r))) PROVE n = m
  BY <1>2 DEF outChild
<1>. QED  BY <1>1, <1>2

-----------------------------------------------------------------------------
(* The two tables agree with each other. *)

\* Every descriptor is in the ASL or free; those in the ASL have waiters, an
\* address each of its own, and it is the address that their waiters wait on.
AslOk(m) ==
  /\ \A s \in SEMD : s \in Members(m, semd_h) \/ s \in Members(m, semdFree_h)
  /\ \A s \in SEMD : s \in Members(m, semd_h) <=> Members(m, s_procq(s)) # {}
  /\ \A s \in Members(m, semd_h) : m.key[s] \in Key
  /\ \A s, t \in Members(m, semd_h) : m.key[s] = m.key[t] => s = t
  /\ \A s \in SEMD : \A p \in Members(m, s_procq(s)) : m.semAdd[p] = m.key[s]

\* p_parent and the lists of children say the same, and a free PCB has neither.
TreeOk(m) ==
  /\ \A p, q \in PCB : q \in Members(m, p_child(p)) <=> m.parent[q] = p
  /\ \A p \in Members(m, pcbFree_h) : m.parent[p] = NULL /\ Members(m, p_child(p)) = {}

\* The processes of "out" are those that are in no queue.
OutIs(m, out) == \A p \in PCB : p \in out <=> Loose(m, "p_list", p)

Ok(m, out) == WellFormed(m) /\ AslOk(m) /\ TreeOk(m) /\ OutIs(m, out)

\* The queues hold processes, and the lists of the ASL descriptors.
LEMMA MembersAre ==
  ASSUME NEW m, WellFormed(m)
  PROVE  /\ Members(m, pcbFree_h) \subseteq PCB /\ Members(m, ready_queue) \subseteq PCB
         /\ Members(m, semdFree_h) \subseteq SEMD /\ Members(m, semd_h) \subseteq SEMD
         /\ \A p \in PCB : Members(m, p_child(p)) \subseteq PCB
         /\ \A s \in SEMD : Members(m, s_procq(s)) \subseteq PCB
<1>1. \A hd \in Heads : Members(m, hd) \subseteq Owner(hd)
  BY MembersOfList
<1>2. \A hd \in Heads : Tag(hd) # "s_link" => Owner(hd) = PCB
  BY DEF Owner
<1>3. \A hd \in Heads : Tag(hd) = "s_link" => Owner(hd) = SEMD
  BY DEF Owner
<1>. QED  BY <1>1, <1>2, <1>3, HeadTags

\* By p_list a process is in one queue at most.
LEMMA OneQueue ==
  ASSUME NEW m, WellFormed(m)
  PROVE  /\ Members(m, pcbFree_h) \cap Members(m, ready_queue) = {}
         /\ Members(m, semd_h) \cap Members(m, semdFree_h) = {}
         /\ \A s \in SEMD : /\ Members(m, s_procq(s)) \cap Members(m, pcbFree_h) = {}
                            /\ Members(m, s_procq(s)) \cap Members(m, ready_queue) = {}
         /\ \A s, t \in SEMD : \A p : p \in Members(m, s_procq(s)) /\ p \in Members(m, s_procq(t)) => s = t
<1>1. \A hd, o \in Heads : \A x : Tag(hd) = Tag(o) /\ x \in Members(m, hd) /\ x \in Members(m, o) => hd = o
  BY OneListForEach
<1>. QED  BY <1>1, HeadTags, HeadsDiffer

\* Being in a queue or in none.
LEMMA LooseProcess ==
  ASSUME NEW m, NEW p
  PROVE  Loose(m, "p_list", p) <=>
           /\ p \notin Members(m, pcbFree_h) /\ p \notin Members(m, ready_queue)
           /\ \A s \in SEMD : p \notin Members(m, s_procq(s))
<1>1. ASSUME Loose(m, "p_list", p)
      PROVE  /\ p \notin Members(m, pcbFree_h) /\ p \notin Members(m, ready_queue)
             /\ \A s \in SEMD : p \notin Members(m, s_procq(s))
  BY <1>1, HeadTags DEF Loose
<1>2. ASSUME p \notin Members(m, pcbFree_h), p \notin Members(m, ready_queue),
             \A s \in SEMD : p \notin Members(m, s_procq(s)),
             NEW hd \in Heads, Tag(hd) = "p_list"
      PROVE  p \notin Members(m, hd)
  <2>1. \A r \in PCB : hd # p_child(r)
    BY <1>2, HeadTags
  <2>2. hd # semdFree_h /\ hd # semd_h
    BY <1>2, HeadTags
  <2>. QED  BY <1>2, <2>1, <2>2 DEF Heads
<1>. QED  BY <1>1, <1>2 DEF Loose

\* A process put into a queue, and one taken out of its queue.
LEMMA OutAfterPut ==
  ASSUME NEW m, NEW n, NEW hd \in Heads, Tag(hd) = "p_list", NEW e, NEW p,
         Updated(m, n, hd, e, Members(m, hd) \cup {p}), NEW out, OutIs(m, out)
  PROVE  OutIs(n, out \ {p})
<1>1. \A o \in Heads : o # hd => Members(n, o) = Members(m, o)
  BY DEF Updated, SameOthers
<1>2. Members(n, hd) = Members(m, hd) \cup {p}
  BY DEF Updated
<1>3. ASSUME NEW q \in PCB PROVE Loose(n, "p_list", q) <=> Loose(m, "p_list", q) /\ q # p
  BY <1>1, <1>2 DEF Loose
<1>. QED  BY <1>3 DEF OutIs

\* A process taken out of its queue is in none.
LEMMA OutAfterTake ==
  ASSUME NEW m, WellFormed(m), NEW n, NEW hd \in Heads, Tag(hd) = "p_list", NEW e, NEW p,
         p \in Members(m, hd), Updated(m, n, hd, e, Members(m, hd) \ {p}), NEW out, OutIs(m, out)
  PROVE  OutIs(n, out \cup {p})
<1>1. \A o \in Heads : o # hd => Members(n, o) = Members(m, o)
  BY DEF Updated, SameOthers
<1>2. Members(n, hd) = Members(m, hd) \ {p}
  BY DEF Updated
<1>3. \A o \in Heads : o # hd /\ Tag(o) = "p_list" => p \notin Members(m, o)
  BY OneListForEach
<1>4. Loose(n, "p_list", p)
  BY <1>1, <1>2, <1>3 DEF Loose
<1>5. ASSUME NEW q \in PCB, q # p PROVE Loose(n, "p_list", q) <=> Loose(m, "p_list", q)
  BY <1>1, <1>2, <1>5 DEF Loose
<1>. QED  BY <1>4, <1>5 DEF OutIs

\* A list of another field does not move any process from queue to queue.
LEMMA OutAfterOther ==
  ASSUME NEW m, NEW n, NEW hd \in Heads, Tag(hd) # "p_list", NEW e, NEW S,
         Updated(m, n, hd, e, S), NEW out, OutIs(m, out)
  PROVE  OutIs(n, out)
<1>1. \A o \in Heads : Tag(o) = "p_list" => Members(n, o) = Members(m, o)
  BY DEF Updated, SameOthers
<1>. QED  BY <1>1 DEF OutIs, Loose

\* The tree is the same when p_parent and the lists of children are.
LEMMA TreeKept ==
  ASSUME NEW m, NEW n, TreeOk(m), n.parent = m.parent,
         \A p \in PCB : Members(n, p_child(p)) = Members(m, p_child(p)),
         Members(n, pcbFree_h) \subseteq Members(m, pcbFree_h), Members(m, pcbFree_h) \subseteq PCB
  PROVE  TreeOk(n)
BY DEF TreeOk

-----------------------------------------------------------------------------
\* search_key finds the one descriptor of the address, if there is one.
LEMMA search_key_Finds ==
  ASSUME NEW m, NEW k
  PROVE  /\ search_key(m, k) # NULL => /\ search_key(m, k) \in Members(m, semd_h)
                                       /\ m.key[search_key(m, k)] = k
         /\ search_key(m, k) = NULL /\ NULL \notin Members(m, semd_h) =>
              \A s \in Members(m, semd_h) : m.key[s] # k
<1>. DEFINE found == {s \in Members(m, semd_h) : m.key[s] = k}
            s0 == CHOOSE s \in found : TRUE
<1>1. search_key(m, k) = IF found = {} THEN NULL ELSE s0
  BY DEF search_key
<1>2. found # {} => s0 \in found
  OBVIOUS
<1>. HIDE DEF s0
<1>. QED  BY <1>1, <1>2

\* search_key of the address of an active descriptor returns it.
LEMMA KeyOfDescriptor ==
  ASSUME NEW m, WellFormed(m), AslOk(m), NEW s \in Members(m, semd_h)
  PROVE  search_key(m, m.key[s]) = s
<1>1. NULL \notin Members(m, semd_h)
  BY MembersAre, TablesAreArrays
<1>2. search_key(m, m.key[s]) # NULL
  BY <1>1, search_key_Finds
<1>3. /\ search_key(m, m.key[s]) \in Members(m, semd_h)
      /\ m.key[search_key(m, m.key[s])] = m.key[s]
  BY <1>2, search_key_Finds
<1>. QED  BY <1>3 DEF AslOk

-----------------------------------------------------------------------------
(* What the table promises: the queues and the parents, as the nucleus sees *)
(* them.                                                                    *)

\* The queue of the processes that wait on an address.
Queue(m, k) ==
  IF search_key(m, k) = NULL THEN <<>> ELSE Entries(m, s_procq(search_key(m, k)))

ReadyIs(n, q)     == Entries(n, ready_queue) = q
FreeIs(n, S)      == Members(n, pcbFree_h) = S
SameWaiters(m, n) == \A k \in Key : Queue(n, k) = Queue(m, k)
SameParents(m, n) == n.parent = m.parent

\* The queues of the addresses are the same when the descriptors are.
LEMMA WaitersKept ==
  ASSUME NEW m, NEW n, n.key = m.key, Members(n, semd_h) = Members(m, semd_h),
         Members(m, semd_h) \subseteq SEMD,
         \A s \in SEMD : Entries(n, s_procq(s)) = Entries(m, s_procq(s))
  PROVE  SameWaiters(m, n) /\ \A k : search_key(n, k) = search_key(m, k)
<1>1. ASSUME NEW k PROVE search_key(n, k) = search_key(m, k)
  BY DEF search_key
<1>2. ASSUME NEW k PROVE Queue(n, k) = Queue(m, k)
  <2>1. CASE search_key(m, k) = NULL
    BY <1>1, <2>1 DEF Queue
  <2>2. CASE search_key(m, k) # NULL
    <3>1. search_key(m, k) \in SEMD
      BY <2>2, search_key_Finds
    <3>. QED  BY <1>1, <2>2, <3>1 DEF Queue
  <2>. QED  BY <2>1, <2>2
<1>. QED  BY <1>1, <1>2 DEF SameWaiters

\* A change of the free list, of the ready queue or of a list of children.
LEMMA AslUntouched ==
  ASSUME NEW m, WellFormed(m), AslOk(m), NEW n, NEW hd \in Heads, NEW e, NEW S,
         Updated(m, n, hd, e, S),
         hd \in {pcbFree_h, ready_queue} \/ \E p \in PCB : hd = p_child(p),
         n.key = m.key, \A s \in SEMD : \A p \in Members(m, s_procq(s)) : n.semAdd[p] = m.semAdd[p]
  PROVE  AslOk(n) /\ SameWaiters(m, n)
<1>1. /\ semd_h # hd /\ semdFree_h # hd /\ \A s \in SEMD : s_procq(s) # hd
  BY HeadsDiffer, HeadTags
<1>2. \A o \in Heads : o # hd => Entries(n, o) = Entries(m, o) /\ Members(n, o) = Members(m, o)
  BY DEF Updated, SameOthers
<1>3. /\ Members(n, semd_h) = Members(m, semd_h) /\ Members(n, semdFree_h) = Members(m, semdFree_h)
      /\ \A s \in SEMD : /\ Members(n, s_procq(s)) = Members(m, s_procq(s))
                         /\ Entries(n, s_procq(s)) = Entries(m, s_procq(s))
  BY <1>1, <1>2, HeadTags
<1>4. AslOk(n)
  BY <1>3 DEF AslOk
<1>5. SameWaiters(m, n)
  BY <1>3, WaitersKept, MembersAre
<1>. QED  BY <1>4, <1>5

\* A process is in no list of children if it is a child of nobody.
LEMMA LooseChild ==
  ASSUME NEW m, NEW p
  PROVE  Loose(m, "p_sib", p) <=> \A q \in PCB : p \notin Members(m, p_child(q))
<1>1. ASSUME NEW hd \in Heads, Tag(hd) = "p_sib" PROVE \E q \in PCB : hd = p_child(q)
  BY <1>1, HeadTags DEF Heads
<1>. QED  BY <1>1, HeadTags DEF Loose

\* allocPcb takes the first free PCB, and resets it in vain.
LEMMA AllocOk ==
  ASSUME NEW m, NEW out, Ok(m, out), Entries(m, pcbFree_h) # <<>>,
         NEW p, p = First(m, pcbFree_h), NEW n, n = allocPcb(m)
  PROVE  /\ p \in Members(m, pcbFree_h) /\ p \in PCB /\ p \notin out
         /\ Ok(n, out \cup {p}) /\ FreeIs(n, Members(m, pcbFree_h) \ {p})
         /\ ReadyIs(n, Entries(m, ready_queue)) /\ SameWaiters(m, n) /\ SameParents(m, n)
<1>1. WellFormed(m) /\ AslOk(m) /\ TreeOk(m) /\ OutIs(m, out) /\ m \in Mem
  BY MemoryOf DEF Ok
<1>2. pcbFree_h \in Heads /\ Tag(pcbFree_h) = "p_list"
  BY HeadTags
<1>3. p \in Members(m, pcbFree_h) /\ p \in PCB
  BY <1>1, <1>2, FirstOfList, MembersAre
<1>4. m.parent[p] = NULL /\ Members(m, p_child(p)) = {} /\ Loose(m, "p_sib", p)
  <2>1. m.parent[p] = NULL /\ Members(m, p_child(p)) = {}
    BY <1>1, <1>3 DEF TreeOk
  <2>2. \A q \in PCB : p \notin Members(m, p_child(q))
    BY <1>1, <1>3, <2>1, TablesAreArrays DEF TreeOk
  <2>. QED  BY <2>1, <2>2, LooseChild
<1>5. /\ Updated(m, n, pcbFree_h, Tail(Entries(m, pcbFree_h)), Members(m, pcbFree_h) \ {p})
      /\ PcbReset(m, n, p)
  BY <1>1, <1>4, allocPcb_Takes
<1>6. p \notin out
  BY <1>1, <1>3, LooseProcess DEF OutIs
<1>7. FreeIs(n, Members(m, pcbFree_h) \ {p}) /\ ReadyIs(n, Entries(m, ready_queue))
  BY <1>5, HeadTags, HeadsDiffer DEF Updated, SameOthers, FreeIs, ReadyIs
<1>8. n.parent = m.parent
  <2>1. m.parent \in [PCB -> PCB \cup {NULL}]
    BY <1>1 DEF Mem
  <2>2. n.parent = [m.parent EXCEPT ![p] = NULL]
    BY <1>5 DEF PcbReset
  <2>. QED  BY <1>3, <1>4, <2>1, <2>2
<1>9. AslOk(n) /\ SameWaiters(m, n)
  <2>1. n.key = m.key /\ n.semAdd = [m.semAdd EXCEPT ![p] = NULL]
    BY <1>5 DEF PcbReset
  <2>2. \A s \in SEMD : \A q \in Members(m, s_procq(s)) : q # p /\ q \in PCB
    BY <1>1, <1>3, OneQueue, MembersAre
  <2>3. \A s \in SEMD : \A q \in Members(m, s_procq(s)) : n.semAdd[q] = m.semAdd[q]
    BY <1>1, <2>1, <2>2 DEF Mem
  <2>. QED  BY <1>1, <1>2, <1>5, <2>1, <2>3, AslUntouched
<1>10. TreeOk(n)
  <2>1. \A q \in PCB : Members(n, p_child(q)) = Members(m, p_child(q))
    BY <1>5, HeadTags, HeadsDiffer DEF Updated, SameOthers
  <2>2. Members(n, pcbFree_h) \subseteq Members(m, pcbFree_h)
    BY <1>7 DEF FreeIs
  <2>. QED  BY <1>1, <1>8, <2>1, <2>2, TreeKept, MembersAre
<1>11. OutIs(n, out \cup {p})
  BY <1>1, <1>2, <1>3, <1>5, OutAfterTake
<1>12. WellFormed(n)
  BY <1>5 DEF Updated
<1>. QED  BY <1>3, <1>6, <1>7, <1>8, <1>9, <1>10, <1>11, <1>12 DEF Ok, SameParents

\* A process goes to the end of the ready queue.
LEMMA ReadyOk ==
  ASSUME NEW m, NEW out, Ok(m, out), NEW p \in out \cap PCB, NEW n, n = insertProcQ(m, ready_queue, p)
  PROVE  /\ Ok(n, out \ {p}) /\ FreeIs(n, Members(m, pcbFree_h))
         /\ ReadyIs(n, Append(Entries(m, ready_queue), p)) /\ SameWaiters(m, n) /\ SameParents(m, n)
<1>1. WellFormed(m) /\ AslOk(m) /\ TreeOk(m) /\ OutIs(m, out)
  BY DEF Ok
<1>2. ready_queue \in Heads /\ Tag(ready_queue) = "p_list" /\ Loose(m, "p_list", p)
  BY <1>1, HeadTags DEF OutIs
<1>3. /\ Updated(m, n, ready_queue, Append(Entries(m, ready_queue), p), Members(m, ready_queue) \cup {p})
      /\ SameFields(m, n)
  BY <1>1, <1>2, insertProcQ_Appends
<1>4. n.parent = m.parent /\ n.semAdd = m.semAdd /\ n.key = m.key
  BY <1>3 DEF SameFields
<1>5. AslOk(n) /\ SameWaiters(m, n)
  BY <1>1, <1>2, <1>3, <1>4, AslUntouched
<1>6. FreeIs(n, Members(m, pcbFree_h)) /\ ReadyIs(n, Append(Entries(m, ready_queue), p))
  BY <1>3, HeadTags, HeadsDiffer DEF Updated, SameOthers, FreeIs, ReadyIs
<1>7. TreeOk(n)
  <2>1. \A q \in PCB : Members(n, p_child(q)) = Members(m, p_child(q))
    BY <1>3, HeadTags, HeadsDiffer DEF Updated, SameOthers
  <2>. QED  BY <1>1, <1>4, <1>6, <2>1, TreeKept, MembersAre DEF FreeIs
<1>8. OutIs(n, out \ {p})
  BY <1>1, <1>2, <1>3, OutAfterPut
<1>9. WellFormed(n)
  BY <1>3 DEF Updated
<1>. QED  BY <1>4, <1>5, <1>6, <1>7, <1>8, <1>9 DEF Ok, SameParents

\* The first of the ready queue leaves it.
LEMMA DispatchOk ==
  ASSUME NEW m, NEW out, Ok(m, out), Entries(m, ready_queue) # <<>>,
         NEW p, p = First(m, ready_queue), NEW n, n = removeProcQ(m, ready_queue)
  PROVE  /\ p = Head(Entries(m, ready_queue)) /\ p \in PCB
         /\ Ok(n, out \cup {p}) /\ FreeIs(n, Members(m, pcbFree_h))
         /\ ReadyIs(n, Tail(Entries(m, ready_queue))) /\ SameWaiters(m, n) /\ SameParents(m, n)
<1>1. WellFormed(m) /\ AslOk(m) /\ TreeOk(m) /\ OutIs(m, out)
  BY DEF Ok
<1>2. ready_queue \in Heads /\ Tag(ready_queue) = "p_list"
  BY HeadTags
<1>3. p = Head(Entries(m, ready_queue)) /\ p \in Members(m, ready_queue) /\ p \in PCB
  BY <1>1, <1>2, FirstOfList, MembersAre
<1>4. /\ Updated(m, n, ready_queue, Tail(Entries(m, ready_queue)), Members(m, ready_queue) \ {p})
      /\ SameFields(m, n)
  BY <1>1, <1>2, removeProcQ_TakesFirst
<1>5. n.parent = m.parent /\ n.semAdd = m.semAdd /\ n.key = m.key
  BY <1>4 DEF SameFields
<1>6. AslOk(n) /\ SameWaiters(m, n)
  BY <1>1, <1>2, <1>4, <1>5, AslUntouched
<1>7. FreeIs(n, Members(m, pcbFree_h)) /\ ReadyIs(n, Tail(Entries(m, ready_queue)))
  BY <1>4, HeadTags, HeadsDiffer DEF Updated, SameOthers, FreeIs, ReadyIs
<1>8. TreeOk(n)
  <2>1. \A q \in PCB : Members(n, p_child(q)) = Members(m, p_child(q))
    BY <1>4, HeadTags, HeadsDiffer DEF Updated, SameOthers
  <2>. QED  BY <1>1, <1>5, <1>7, <2>1, TreeKept, MembersAre DEF FreeIs
<1>9. OutIs(n, out \cup {p})
  BY <1>1, <1>2, <1>3, <1>4, OutAfterTake
<1>10. WellFormed(n)
  BY <1>4 DEF Updated
<1>. QED  BY <1>3, <1>5, <1>6, <1>7, <1>8, <1>9, <1>10 DEF Ok, SameParents

\* A process without parent becomes the last child of another.
LEMMA ChildOk ==
  ASSUME NEW m, NEW out, Ok(m, out), NEW prnt \in PCB, NEW p \in PCB,
         m.parent[p] = NULL, p \notin Members(m, pcbFree_h), prnt \notin Members(m, pcbFree_h),
         NEW n, n = insertChild(m, prnt, p)
  PROVE  /\ Ok(n, out) /\ FreeIs(n, Members(m, pcbFree_h))
         /\ ReadyIs(n, Entries(m, ready_queue)) /\ SameWaiters(m, n)
         /\ ParentBecomes(m, n, p, prnt)
<1>1. WellFormed(m) /\ AslOk(m) /\ TreeOk(m) /\ OutIs(m, out) /\ m \in Mem
  BY MemoryOf DEF Ok
<1>. DEFINE hd == p_child(prnt)
<1>2. hd \in Heads /\ Tag(hd) = "p_sib"
  BY HeadTags
<1>3. Loose(m, "p_sib", p)
  BY <1>1, LooseChild, TablesAreArrays DEF TreeOk
<1>4. /\ Updated(m, n, hd, Append(Entries(m, hd), p), Members(m, hd) \cup {p})
      /\ ParentBecomes(m, n, p, prnt)
  BY <1>1, <1>3, insertChild_Appends
<1>5. n.parent = [m.parent EXCEPT ![p] = prnt] /\ n.semAdd = m.semAdd /\ n.key = m.key
  BY <1>4 DEF ParentBecomes
<1>6. AslOk(n) /\ SameWaiters(m, n)
  <2>1. \E q \in PCB : hd = p_child(q)
    OBVIOUS
  <2>. HIDE DEF hd
  <2>. QED  BY <1>1, <1>2, <1>4, <1>5, <2>1, AslUntouched
<1>7. FreeIs(n, Members(m, pcbFree_h)) /\ ReadyIs(n, Entries(m, ready_queue))
  BY <1>4, HeadTags, HeadsDiffer DEF Updated, SameOthers, FreeIs, ReadyIs
<1>8. TreeOk(n)
  <2>1. /\ \A q \in PCB : q # prnt => Members(n, p_child(q)) = Members(m, p_child(q))
        /\ Members(n, p_child(prnt)) = Members(m, p_child(prnt)) \cup {p}
    BY <1>4, HeadTags, HeadsDiffer DEF Updated, SameOthers
  <2>2. \A q \in PCB : n.parent[q] = IF q = p THEN prnt ELSE m.parent[q]
    BY <1>1, <1>5 DEF Mem
  <2>3. Members(n, pcbFree_h) = Members(m, pcbFree_h) /\ Members(m, pcbFree_h) \subseteq PCB
    BY <1>1, <1>7, MembersAre DEF FreeIs
  <2>4. \A r, q \in PCB : q \in Members(m, p_child(r)) <=> m.parent[q] = r
    BY <1>1 DEF TreeOk
  <2>5. \A q \in Members(m, pcbFree_h) : m.parent[q] = NULL /\ Members(m, p_child(q)) = {}
    BY <1>1 DEF TreeOk
  <2>6. \A r, q \in PCB : q \in Members(n, p_child(r)) <=> n.parent[q] = r
    BY <2>1, <2>2, <2>4, TablesAreArrays
  <2>7. \A q \in Members(n, pcbFree_h) : n.parent[q] = NULL /\ Members(n, p_child(q)) = {}
    BY <2>1, <2>2, <2>3, <2>5
  <2>. QED  BY <2>6, <2>7 DEF TreeOk
<1>9. OutIs(n, out)
  <2>1. Tag(hd) # "p_list"
    BY <1>2
  <2>. HIDE DEF hd
  <2>. QED  BY <1>1, <1>2, <1>4, <2>1, OutAfterOther
<1>10. WellFormed(n)
  BY <1>4 DEF Updated
<1>. QED  BY <1>4, <1>6, <1>7, <1>8, <1>9, <1>10 DEF Ok

-----------------------------------------------------------------------------
(* The ASL. *)

\* The queue of one address becomes e, and those of the others stay.
WaitersBecome(m, n, a, e) ==
  \A k \in Key : Queue(n, k) = IF k = a THEN e ELSE Queue(m, k)

\* The queue of an address is that of its descriptor, or empty.
LEMMA QueueOf ==
  ASSUME NEW m, WellFormed(m), AslOk(m), NEW k
  PROVE  /\ \A s \in Members(m, semd_h) : m.key[s] = k => Queue(m, k) = Entries(m, s_procq(s))
         /\ (\A s \in Members(m, semd_h) : m.key[s] # k) => Queue(m, k) = <<>>
<1>1. Members(m, semd_h) \subseteq SEMD /\ NULL \notin SEMD
  BY MembersAre, TablesAreArrays
<1>2. ASSUME NEW s \in Members(m, semd_h), m.key[s] = k PROVE Queue(m, k) = Entries(m, s_procq(s))
  <2>1. search_key(m, k) = s /\ s # NULL
    BY <1>1, <1>2, KeyOfDescriptor
  <2>. QED  BY <2>1 DEF Queue
<1>3. ASSUME \A s \in Members(m, semd_h) : m.key[s] # k PROVE Queue(m, k) = <<>>
  <2>1. search_key(m, k) = NULL
    BY <1>3, search_key_Finds
  <2>. QED  BY <2>1 DEF Queue
<1>. QED  BY <1>2, <1>3

\* What Retire does to a descriptor whose queue is empty.
Retired(m, n, s) ==
  /\ WellFormed(n) /\ SameFields(m, n)
  /\ Members(n, semd_h) = Members(m, semd_h) \ {s}
  /\ Members(n, semdFree_h) = Members(m, semdFree_h) \cup {s}
  /\ \A o \in Heads : o \notin {semd_h, semdFree_h} =>
       Entries(n, o) = Entries(m, o) /\ Members(n, o) = Members(m, o)

\* A descriptor without waiters leaves the ASL and becomes free.
LEMMA Retire_Frees ==
  ASSUME NEW m, WellFormed(m), NEW s \in Members(m, semd_h), NEW n, n = Retire(m, s)
  PROVE  /\ Members(m, s_procq(s)) # {} => n = m
         /\ Members(m, s_procq(s)) = {} => Retired(m, n, s)
<1>1. s \in SEMD /\ s_procq(s) \in Heads
  BY MembersAre, HeadTags
<1>2. Empty(m, s_procq(s)) <=> Members(m, s_procq(s)) = {}
  BY <1>1, FirstOfList
<1>3. ASSUME Members(m, s_procq(s)) # {} PROVE n = m
  BY <1>2, <1>3 DEF Retire
<1>4. ASSUME Members(m, s_procq(s)) = {} PROVE Retired(m, n, s)
  <2>. DEFINE t == [m EXCEPT !.links = list_del(@, <<Tag(semd_h), s>>)]
  <2>1. semd_h \in Heads /\ semdFree_h \in Heads /\ semd_h # semdFree_h
        /\ Tag(semd_h) = "s_link" /\ Tag(semdFree_h) = "s_link"
    BY HeadTags, HeadsDiffer
  <2>2. /\ Updated(m, t, semd_h, RemoveFirst(Entries(m, semd_h), s), Members(m, semd_h) \ {s})
        /\ SameFields(m, t)
    BY <2>1, DeleteEntry
  <2>3. s_link(s) = <<Tag(semd_h), s>> /\ s_link(s) = <<Tag(semdFree_h), s>>
    BY <2>1 DEF s_link
  <2>4. m \in Mem /\ t.links = list_del(m.links, s_link(s))
    BY <2>3, MemoryOf DEF Mem
  <2>5. n = [t EXCEPT !.links = list_add(t.links, s_link(s), semdFree_h)]
    BY <1>2, <1>4, <2>3, <2>4 DEF Retire, Mem
  <2>. HIDE DEF t
  <2>6. WellFormed(t) /\ t \in Mem /\ t.links \in HeapOn(Cell)
    BY <2>2, MemoryOf DEF Updated
  <2>7. Loose(t, "s_link", s)
    <3>1. ASSUME NEW o \in Heads, Tag(o) = "s_link" PROVE s \notin Members(t, o)
      <4>1. CASE o = semd_h
        BY <2>2, <4>1 DEF Updated
      <4>2. CASE o # semd_h
        <5>1. s \notin Members(m, o)
          BY <2>1, <3>1, <4>2, OneListForEach
        <5>. QED  BY <2>2, <4>2, <5>1 DEF Updated, SameOthers
      <4>. QED  BY <4>1, <4>2
    <3>. QED  BY <3>1 DEF Loose
  <2>8. s_link(s) \in Cell /\ semdFree_h \in Cell
    BY <1>1, <2>1, <2>3, ItemOfEntry, HeadsAndItems DEF Owner
  <2>. DEFINE g == list_add(t.links, s_link(s), semdFree_h)
  <2>9. g \in Links(Cell) /\ n = [t EXCEPT !.links = g]
    BY <2>5, <2>6, <2>8, LinksOfCells
  <2>. HIDE DEF g
  <2>10. n \in Mem /\ n.links = g /\ SameFields(t, n)
    BY <2>6, <2>9, NewLinks
  <2>11. n.links = list_add(t.links, <<Tag(semdFree_h), s>>, semdFree_h) /\ s \in Owner(semdFree_h)
    BY <1>1, <2>1, <2>3, <2>10 DEF g, Owner
  <2>12. Loose(t, Tag(semdFree_h), s)
    BY <2>1, <2>7
  <2>13. Updated(t, n, semdFree_h, InsertAt(Entries(t, semdFree_h), 1, s), Members(t, semdFree_h) \cup {s})
    BY <2>1, <2>6, <2>10, <2>11, <2>12, PutFirst
  <2>14. WellFormed(n) /\ SameFields(m, n)
    BY <2>2, <2>10, <2>13 DEF Updated, SameFields
  <2>15. Members(n, semd_h) = Members(m, semd_h) \ {s}
    BY <2>1, <2>2, <2>13 DEF Updated, SameOthers
  <2>16. Members(n, semdFree_h) = Members(m, semdFree_h) \cup {s}
    BY <2>1, <2>2, <2>13 DEF Updated, SameOthers
  <2>17. ASSUME NEW o \in Heads, o \notin {semd_h, semdFree_h}
         PROVE  Entries(n, o) = Entries(m, o) /\ Members(n, o) = Members(m, o)
    BY <2>2, <2>13, <2>17 DEF Updated, SameOthers
  <2>. QED  BY <2>14, <2>15, <2>16, <2>17 DEF Retired
<1>. QED  BY <1>3, <1>4

\* The fields but the semaphore of p.
SameButSemAdd(m, d, p) ==
  d.key = m.key /\ d.parent = m.parent /\ \A q \in PCB : q # p => d.semAdd[q] = m.semAdd[q]

\* A process leaves the queue of a descriptor, that is retired if nobody else
\* is in it.
LEMMA TakeWaiter ==
  ASSUME NEW m, NEW out, Ok(m, out), NEW s \in SEMD, NEW p \in Members(m, s_procq(s)),
         NEW e, NEW d, Updated(m, d, s_procq(s), e, Members(m, s_procq(s)) \ {p}),
         SameButSemAdd(m, d, p), NEW n, n = Retire(d, s)
  PROVE  /\ s \in Members(m, semd_h) /\ p \in PCB
         /\ Ok(n, out \cup {p}) /\ FreeIs(n, Members(m, pcbFree_h))
         /\ ReadyIs(n, Entries(m, ready_queue)) /\ SameParents(m, n)
         /\ WaitersBecome(m, n, m.key[s], e)
<1>1. WellFormed(m) /\ AslOk(m) /\ TreeOk(m) /\ OutIs(m, out)
  BY DEF Ok
<1>. DEFINE hd == s_procq(s)
<1>0. d.key = m.key /\ d.parent = m.parent /\ \A q \in PCB : q # p => d.semAdd[q] = m.semAdd[q]
  BY DEF SameButSemAdd
<1>2. /\ hd \in Heads /\ Tag(hd) = "p_list"
      /\ hd \notin {pcbFree_h, semdFree_h, semd_h, ready_queue}
      /\ (\A q \in PCB : hd # p_child(q)) /\ \A t \in SEMD : t # s => hd # s_procq(t)
  BY HeadTags, HeadsDiffer
<1>3. s \in Members(m, semd_h) /\ p \in PCB
  BY <1>1, MembersAre DEF AslOk
<1>4. /\ WellFormed(d) /\ Entries(d, hd) = e /\ Members(d, hd) = Members(m, hd) \ {p}
      /\ \A o \in Heads : o # hd => Entries(d, o) = Entries(m, o) /\ Members(d, o) = Members(m, o)
  BY DEF Updated, SameOthers
<1>5. OutIs(d, out \cup {p})
  BY <1>1, <1>2, OutAfterTake
<1>. HIDE DEF hd
<1>6. s \in Members(d, semd_h)
  BY <1>2, <1>3, <1>4, HeadTags
<1>7. /\ Members(d, hd) # {} => n = d
      /\ Members(d, hd) = {} => Retired(d, n, s)
  BY <1>4, <1>6, Retire_Frees DEF hd
<1>8. /\ WellFormed(n) /\ n.parent = m.parent /\ n.key = m.key /\ n.semAdd = d.semAdd
      /\ \A o \in Heads : o \notin {semd_h, semdFree_h} =>
           Entries(n, o) = Entries(d, o) /\ Members(n, o) = Members(d, o)
  BY <1>0, <1>4, <1>7 DEF Retired, SameFields
<1>9. OutIs(n, out \cup {p})
  <2>1. \A o \in Heads : Tag(o) = "p_list" => o \notin {semd_h, semdFree_h}
    BY HeadTags
  <2>. QED  BY <1>5, <1>8, <2>1 DEF OutIs, Loose
<1>10. /\ Members(n, pcbFree_h) = Members(m, pcbFree_h) /\ Entries(n, ready_queue) = Entries(m, ready_queue)
       /\ \A q \in PCB : Members(n, p_child(q)) = Members(m, p_child(q))
  BY <1>2, <1>4, <1>8, HeadTags, HeadsDiffer
<1>11. TreeOk(n)
  BY <1>1, <1>8, <1>10, TreeKept, MembersAre
<1>12. /\ Members(n, hd) = Members(m, hd) \ {p} /\ Entries(n, hd) = e
       /\ \A t \in SEMD : t # s => /\ Members(n, s_procq(t)) = Members(m, s_procq(t))
                                   /\ Entries(n, s_procq(t)) = Entries(m, s_procq(t))
  BY <1>2, <1>4, <1>8, HeadTags, HeadsDiffer
<1>13. /\ Members(n, hd) # {} => /\ Members(n, semd_h) = Members(m, semd_h)
                                 /\ Members(n, semdFree_h) = Members(m, semdFree_h)
       /\ Members(n, hd) = {} => /\ Members(n, semd_h) = Members(m, semd_h) \ {s}
                                 /\ Members(n, semdFree_h) = Members(m, semdFree_h) \cup {s}
  BY <1>2, <1>4, <1>7, <1>12, HeadTags DEF Retired
<1>14. AslOk(n)
  <2>1. \A t \in SEMD : t \in Members(n, semd_h) \/ t \in Members(n, semdFree_h)
    BY <1>1, <1>13 DEF AslOk
  <2>2. \A t \in SEMD : t \in Members(n, semd_h) <=> Members(n, s_procq(t)) # {}
    <3>1. \A t \in SEMD : t \in Members(m, semd_h) <=> Members(m, s_procq(t)) # {}
      BY <1>1 DEF AslOk
    <3>. QED  BY <1>3, <1>12, <1>13, <3>1 DEF hd
  <2>3. \A t \in Members(n, semd_h) : t \in Members(m, semd_h)
    BY <1>13
  <2>4. /\ \A t \in Members(n, semd_h) : n.key[t] \in Key
        /\ \A t, u \in Members(n, semd_h) : n.key[t] = n.key[u] => t = u
    BY <1>1, <1>8, <2>3 DEF AslOk
  <2>5. ASSUME NEW t \in SEMD, NEW q \in Members(n, s_procq(t)) PROVE n.semAdd[q] = n.key[t]
    <3>1. q \in Members(m, s_procq(t)) /\ q # p
      BY <1>1, <1>12, <2>5, OneQueue DEF hd
    <3>2. q \in PCB /\ m.semAdd[q] = m.key[t]
      BY <1>1, <3>1, MembersAre DEF AslOk
    <3>. QED  BY <1>0, <1>8, <3>1, <3>2
  <2>. QED  BY <2>1, <2>2, <2>4, <2>5 DEF AslOk
<1>15. ASSUME NEW k \in Key
       PROVE  Queue(n, k) = IF k = m.key[s] THEN e ELSE Queue(m, k)
  <2>1. CASE \E t \in Members(n, semd_h) : n.key[t] = k
    <3>1. PICK t \in Members(n, semd_h) : n.key[t] = k
      BY <2>1
    <3>2. t \in Members(m, semd_h) /\ t \in SEMD /\ m.key[t] = k
      BY <1>1, <1>8, <1>13, <3>1, MembersAre
    <3>3. Queue(n, k) = Entries(n, s_procq(t)) /\ Queue(m, k) = Entries(m, s_procq(t))
      BY <1>1, <1>8, <1>14, <3>1, <3>2, QueueOf
    <3>4. t = s <=> k = m.key[s]
      BY <1>1, <1>3, <3>2 DEF AslOk
    <3>. QED  BY <1>12, <3>2, <3>3, <3>4 DEF hd
  <2>2. CASE \A t \in Members(n, semd_h) : n.key[t] # k
    <3>1. Queue(n, k) = <<>>
      BY <1>8, <1>14, <2>2, QueueOf
    <3>2. CASE k = m.key[s]
      <4>1. s \notin Members(n, semd_h)
        BY <1>8, <2>2, <3>2
      <4>2. Members(n, hd) = {}
        BY <1>3, <1>13, <4>1
      <4>3. e = <<>>
        BY <1>2, <1>8, <1>12, <4>2, FirstOfList
      <4>. QED  BY <3>1, <3>2, <4>3
    <3>3. CASE k # m.key[s]
      <4>1. \A t \in Members(m, semd_h) : m.key[t] # k
        BY <1>8, <1>13, <2>2, <3>3
      <4>. QED  BY <1>1, <3>1, <3>3, <4>1, QueueOf
    <3>. QED  BY <3>2, <3>3
  <2>. QED  BY <2>1, <2>2
<1>16. FreeIs(n, Members(m, pcbFree_h)) /\ ReadyIs(n, Entries(m, ready_queue)) /\ SameParents(m, n)
  BY <1>8, <1>10 DEF FreeIs, ReadyIs, SameParents
<1>. QED  BY <1>3, <1>8, <1>9, <1>11, <1>14, <1>15, <1>16 DEF Ok, WaitersBecome

\* The first waiter of an address leaves its queue.
Woken(m, n, out, k, p) ==
  /\ Queue(m, k) # <<>> /\ p = Head(Queue(m, k)) /\ p \in PCB
  /\ p \notin out /\ Ok(n, out \cup {p}) /\ FreeIs(n, Members(m, pcbFree_h))
  /\ ReadyIs(n, Entries(m, ready_queue)) /\ SameParents(m, n)
  /\ WaitersBecome(m, n, k, Tail(Queue(m, k)))

\* removeBlocked takes the first of the queue of an address.
LEMMA WakeOk ==
  ASSUME NEW m, NEW out, Ok(m, out), NEW k \in Key, NEW s, s = search_key(m, k), s # NULL,
         NEW p, p = First(m, s_procq(s)), NEW n, n = removeBlocked(m, k)
  PROVE  Woken(m, n, out, k, p)
<1>1. WellFormed(m) /\ AslOk(m)
  BY DEF Ok
<1>2. s \in Members(m, semd_h) /\ m.key[s] = k /\ s \in SEMD
  BY <1>1, search_key_Finds, MembersAre
<1>. DEFINE hd == s_procq(s)
<1>3. hd \in Heads /\ Members(m, hd) # {}
  BY <1>1, <1>2, HeadTags DEF AslOk
<1>4. Queue(m, k) = Entries(m, hd)
  BY <1>1, <1>2, QueueOf
<1>5. Entries(m, hd) # <<>> /\ p = Head(Entries(m, hd)) /\ p \in Members(m, hd)
  BY <1>1, <1>3, FirstOfList
<1>. DEFINE d == removeProcQ(m, hd)
<1>. HIDE DEF hd
<1>6. Updated(m, d, hd, Tail(Entries(m, hd)), Members(m, hd) \ {p}) /\ SameFields(m, d)
  BY <1>1, <1>3, <1>5, removeProcQ_TakesFirst DEF hd
<1>7. n = Retire(d, s)
  BY DEF removeBlocked, hd
<1>. HIDE DEF d
<1>8. SameButSemAdd(m, d, p)
  BY <1>6 DEF SameFields, SameButSemAdd
<1>9. /\ p \in PCB /\ Ok(n, out \cup {p}) /\ FreeIs(n, Members(m, pcbFree_h))
      /\ ReadyIs(n, Entries(m, ready_queue)) /\ SameParents(m, n)
      /\ WaitersBecome(m, n, m.key[s], Tail(Entries(m, hd)))
  BY <1>2, <1>5, <1>6, <1>7, <1>8, TakeWaiter DEF hd
<1>10. p \notin out
  BY <1>2, <1>5, <1>9, LooseProcess DEF Ok, OutIs, hd
<1>. QED  BY <1>2, <1>4, <1>5, <1>9, <1>10 DEF Woken

\* The descriptor in whose queue a process is, and the entry in that queue.
LEMMA OutOfQueue ==
  ASSUME NEW m, NEW out, Ok(m, out), NEW s \in SEMD, NEW p \in Members(m, s_procq(s)),
         NEW d, d = [m EXCEPT !.links = list_del(@, p_list(p))]
  PROVE  /\ Updated(m, d, s_procq(s), RemoveFirst(Entries(m, s_procq(s)), p), Members(m, s_procq(s)) \ {p})
         /\ SameFields(m, d)
<1>. DEFINE hd == s_procq(s)
<1>1. hd \in Heads /\ Tag(hd) = "p_list" /\ WellFormed(m) /\ p \in Members(m, hd)
  BY HeadTags DEF Ok
<1>2. d = [m EXCEPT !.links = list_del(@, <<Tag(hd), p>>)]
  BY <1>1 DEF p_list
<1>. HIDE DEF hd
<1>3. Updated(m, d, hd, RemoveFirst(Entries(m, hd), p), Members(m, hd) \ {p}) /\ SameFields(m, d)
  BY <1>1, <1>2, DeleteEntry
<1>. QED  BY <1>3 DEF hd

\* Every queue loses p.
Dropped(m, n, p) ==
  /\ Entries(n, ready_queue) = RemoveFirst(Entries(m, ready_queue), p)
  /\ \A k \in Key : Queue(n, k) = RemoveFirst(Queue(m, k), p)

\* A process leaves the queue it is blocked in, and no other queue knows it.
LEMMA BlockedDropped ==
  ASSUME NEW m, NEW out, Ok(m, out), NEW s \in SEMD, NEW p \in Members(m, s_procq(s)), NEW n,
         ReadyIs(n, Entries(m, ready_queue)),
         WaitersBecome(m, n, m.key[s], RemoveFirst(Entries(m, s_procq(s)), p))
  PROVE  Dropped(m, n, p)
<1>1. WellFormed(m) /\ AslOk(m)
  BY DEF Ok
<1>2. s \in Members(m, semd_h) /\ Queue(m, m.key[s]) = Entries(m, s_procq(s))
  BY <1>1, QueueOf DEF AslOk
<1>3. Entries(n, ready_queue) = RemoveFirst(Entries(m, ready_queue), p)
  <2>1. ready_queue \in Heads
    BY HeadTags
  <2>2. p \notin Members(m, ready_queue)
    BY <1>1, OneQueue
  <2>3. Entries(m, ready_queue) \in Seq(Owner(ready_queue)) /\ p \notin Range(Entries(m, ready_queue))
    BY <1>1, <2>1, <2>2, MembersOfList
  <2>4. RemoveFirst(Entries(m, ready_queue), p) = Entries(m, ready_queue)
    BY <2>3, RemoveNothing
  <2>. QED  BY <2>4 DEF ReadyIs
<1>4. ASSUME NEW k \in Key PROVE Queue(n, k) = RemoveFirst(Queue(m, k), p)
  <2>1. CASE k = m.key[s]
    BY <1>2, <2>1 DEF WaitersBecome
  <2>2. CASE k # m.key[s]
    <3>1. Queue(n, k) = Queue(m, k)
      BY <2>2 DEF WaitersBecome
    <3>2. RemoveFirst(Queue(m, k), p) = Queue(m, k)
      <4>1. CASE \E t \in Members(m, semd_h) : m.key[t] = k
        <5>1. PICK t \in Members(m, semd_h) : m.key[t] = k
          BY <4>1
        <5>. DEFINE o == s_procq(t)
        <5>2. t \in SEMD /\ t # s /\ o \in Heads /\ Queue(m, k) = Entries(m, o)
          BY <1>1, <2>2, <5>1, MembersAre, HeadTags, QueueOf
        <5>3. p \notin Members(m, o)
          BY <1>1, <5>2, OneQueue
        <5>. HIDE DEF o
        <5>4. Entries(m, o) \in Seq(Owner(o)) /\ p \notin Range(Entries(m, o))
          BY <1>1, <5>2, <5>3, MembersOfList
        <5>5. RemoveFirst(Entries(m, o), p) = Entries(m, o)
          BY <5>4, RemoveNothing
        <5>. QED  BY <5>2, <5>5
      <4>2. CASE \A t \in Members(m, semd_h) : m.key[t] # k
        <5>1. Queue(m, k) = <<>>
          BY <1>1, <4>2, QueueOf
        <5>2. <<>> \in Seq(PCB) /\ p \notin Range(<<>>)
          <6>1. <<>> \in Seq(PCB) /\ Len(<<>>) = 0 /\ DOMAIN <<>> = {}
            BY EmptySeq
          <6>. QED  BY <6>1 DEF Range
        <5>3. RemoveFirst(<<>>, p) = <<>>
          BY <5>2, RemoveNothing
        <5>. QED  BY <5>1, <5>3
      <4>. QED  BY <4>1, <4>2
    <3>. QED  BY <3>1, <3>2
  <2>. QED  BY <2>1, <2>2
<1>. QED  BY <1>3, <1>4 DEF Dropped

\* outBlocked and its variant by pid take the process out of the queue of the
\* semaphore it waits for, and do nothing to one that waits for none.
LEMMA outBlocked_Takes ==
  ASSUME NEW m, NEW out, Ok(m, out), NEW p \in PCB, NEW n, n = outBlocked(m, p)
  PROVE  /\ (\E s \in SEMD : p \in Members(m, s_procq(s))) =>
              /\ Ok(n, out \cup {p}) /\ FreeIs(n, Members(m, pcbFree_h)) /\ SameParents(m, n)
              /\ Dropped(m, n, p) /\ ReadyIs(n, Entries(m, ready_queue))
         /\ ~(\E s \in SEMD : p \in Members(m, s_procq(s))) => n = m
<1>. DEFINE s == search_key(m, m.semAdd[p])
<1>1. WellFormed(m) /\ AslOk(m)
  BY DEF Ok
<1>2. s # NULL => s \in SEMD
  BY <1>1, search_key_Finds, MembersAre
<1>3. ASSUME NEW t \in SEMD, p \in Members(m, s_procq(t))
      PROVE  /\ Ok(n, out \cup {p}) /\ FreeIs(n, Members(m, pcbFree_h)) /\ SameParents(m, n)
             /\ Dropped(m, n, p) /\ ReadyIs(n, Entries(m, ready_queue))
  <2>1. t \in Members(m, semd_h) /\ m.semAdd[p] = m.key[t]
    BY <1>1, <1>3 DEF AslOk
  <2>2. s = t /\ s # NULL
    BY <1>1, <2>1, KeyOfDescriptor, TablesAreArrays
  <2>. DEFINE d == [m EXCEPT !.links = list_del(@, p_list(p))]
  <2>3. n = Retire(d, t)
    BY <1>3, <2>2 DEF outBlocked
  <2>4. /\ Updated(m, d, s_procq(t), RemoveFirst(Entries(m, s_procq(t)), p), Members(m, s_procq(t)) \ {p})
        /\ SameFields(m, d)
    BY <1>3, OutOfQueue
  <2>. HIDE DEF d
  <2>5. SameButSemAdd(m, d, p)
    BY <2>4 DEF SameFields, SameButSemAdd
  <2>6. /\ Ok(n, out \cup {p}) /\ FreeIs(n, Members(m, pcbFree_h))
        /\ ReadyIs(n, Entries(m, ready_queue)) /\ SameParents(m, n)
        /\ WaitersBecome(m, n, m.key[t], RemoveFirst(Entries(m, s_procq(t)), p))
    BY <1>3, <2>3, <2>4, <2>5, TakeWaiter
  <2>. QED  BY <1>3, <2>6, BlockedDropped
<1>4. ASSUME ~(\E t \in SEMD : p \in Members(m, s_procq(t))) PROVE n = m
  BY <1>2, <1>4 DEF outBlocked
<1>. QED  BY <1>3, <1>4

\* outBlockedPid finds a process in the queue in which it waits.
LEMMA outBlockedPid_Takes ==
  ASSUME NEW m, NEW out, Ok(m, out), NEW p \in PCB, NEW n, n = outBlockedPid(m, p)
  PROVE  /\ (\E s \in SEMD : p \in Members(m, s_procq(s))) =>
              /\ Ok(n, out \cup {p}) /\ FreeIs(n, Members(m, pcbFree_h)) /\ SameParents(m, n)
              /\ Dropped(m, n, p) /\ ReadyIs(n, Entries(m, ready_queue))
         /\ ~(\E s \in SEMD : p \in Members(m, s_procq(s))) => n = m
<1>. DEFINE found == {s \in Members(m, semd_h) : p \in Members(m, s_procq(s))}
            s0 == CHOOSE s \in found : TRUE
<1>1. WellFormed(m) /\ AslOk(m) /\ m \in Mem
  BY MemoryOf DEF Ok
<1>2. \A t \in SEMD : p \in Members(m, s_procq(t)) => t \in found
  BY <1>1 DEF AslOk
<1>3. \A t \in found : t \in SEMD /\ p \in Members(m, s_procq(t))
  BY <1>1, MembersAre
<1>4. ASSUME NEW t \in SEMD, p \in Members(m, s_procq(t))
      PROVE  /\ Ok(n, out \cup {p}) /\ FreeIs(n, Members(m, pcbFree_h)) /\ SameParents(m, n)
             /\ Dropped(m, n, p) /\ ReadyIs(n, Entries(m, ready_queue))
  <2>1. t \in found /\ \A u \in found : u = t
    BY <1>1, <1>2, <1>3, <1>4, OneQueue
  <2>2. s0 = t /\ found # {}
    BY <2>1
  <2>. DEFINE d == [m EXCEPT !.links = list_del(@, p_list(p))]
              c == [m EXCEPT !.links = list_del(@, p_list(p)), !.semAdd[p] = NULL]
  <2>3. n = Retire(c, t)
    BY <2>2 DEF outBlockedPid
  <2>4. /\ Updated(m, d, s_procq(t), RemoveFirst(Entries(m, s_procq(t)), p), Members(m, s_procq(t)) \ {p})
        /\ SameFields(m, d)
    BY <1>4, OutOfQueue
  <2>5. c = [d EXCEPT !.semAdd[p] = NULL]
    BY <1>1 DEF Mem
  <2>6. d \in Mem
    BY <2>4, MemoryOf DEF Updated
  <2>. HIDE DEF d, c
  <2>7. NULL \in Key \cup {NULL}
    OBVIOUS
  <2>8. c \in Mem /\ SameLists(d, c) /\ SemAddBecomes(d, c, p, NULL)
    BY <2>5, <2>6, <2>7, SetSemAdd
  <2>9. Updated(m, c, s_procq(t), RemoveFirst(Entries(m, s_procq(t)), p), Members(m, s_procq(t)) \ {p})
    BY <2>4, <2>8, UpdatedThenSame, HeadTags
  <2>10. SameButSemAdd(m, c, p)
    BY <1>1, <2>4, <2>8 DEF SameFields, SemAddBecomes, Mem, SameButSemAdd
  <2>11. /\ Ok(n, out \cup {p}) /\ FreeIs(n, Members(m, pcbFree_h))
         /\ ReadyIs(n, Entries(m, ready_queue)) /\ SameParents(m, n)
         /\ WaitersBecome(m, n, m.key[t], RemoveFirst(Entries(m, s_procq(t)), p))
    BY <1>4, <2>3, <2>9, <2>10, TakeWaiter
  <2>. QED  BY <1>4, <2>11, BlockedDropped
<1>5. ASSUME ~(\E t \in SEMD : p \in Members(m, s_procq(t))) PROVE n = m
  <2>1. found = {}
    BY <1>3, <1>5
  <2>. QED  BY <2>1 DEF outBlockedPid
<1>. QED  BY <1>4, <1>5

-----------------------------------------------------------------------------
(* removePcb *)

\* A process that is in no queue, and has no relatives, is freed.
LEMMA FreeOk ==
  ASSUME NEW m, NEW out, Ok(m, out), NEW p \in PCB, p \in out,
         m.parent[p] = NULL, Members(m, p_child(p)) = {}, NEW n, n = freePcb(m, p)
  PROVE  /\ Ok(n, out \ {p}) /\ FreeIs(n, Members(m, pcbFree_h) \cup {p})
         /\ ReadyIs(n, Entries(m, ready_queue)) /\ SameWaiters(m, n) /\ SameParents(m, n)
<1>1. WellFormed(m) /\ AslOk(m) /\ TreeOk(m) /\ OutIs(m, out)
  BY DEF Ok
<1>2. pcbFree_h \in Heads /\ Tag(pcbFree_h) = "p_list" /\ Loose(m, "p_list", p)
  BY <1>1, HeadTags DEF OutIs
<1>3. /\ Updated(m, n, pcbFree_h, InsertAt(Entries(m, pcbFree_h), 1, p), Members(m, pcbFree_h) \cup {p})
      /\ SameFields(m, n)
  BY <1>1, <1>2, freePcb_Frees
<1>4. n.parent = m.parent /\ n.semAdd = m.semAdd /\ n.key = m.key
  BY <1>3 DEF SameFields
<1>5. AslOk(n) /\ SameWaiters(m, n)
  BY <1>1, <1>2, <1>3, <1>4, AslUntouched
<1>6. /\ FreeIs(n, Members(m, pcbFree_h) \cup {p}) /\ ReadyIs(n, Entries(m, ready_queue))
      /\ Members(n, pcbFree_h) = Members(m, pcbFree_h) \cup {p}
  BY <1>3, HeadTags, HeadsDiffer DEF Updated, SameOthers, FreeIs, ReadyIs
<1>7. TreeOk(n)
  <2>1. \A q \in PCB : Members(n, p_child(q)) = Members(m, p_child(q))
    BY <1>3, HeadTags, HeadsDiffer DEF Updated, SameOthers
  <2>2. Members(m, pcbFree_h) \subseteq PCB
    BY <1>1, MembersAre
  <2>. QED  BY <1>1, <1>4, <1>6, <2>1, <2>2 DEF TreeOk
<1>8. OutIs(n, out \ {p})
  BY <1>1, <1>2, <1>3, OutAfterPut
<1>9. WellFormed(n)
  BY <1>3 DEF Updated
<1>. QED  BY <1>4, <1>5, <1>6, <1>7, <1>8, <1>9 DEF Ok, SameParents

\* The queues of the addresses do not hold who waits for nothing.
LEMMA NotInQueue ==
  ASSUME NEW m, WellFormed(m), AslOk(m), NEW p, \A s \in SEMD : p \notin Members(m, s_procq(s)),
         NEW k
  PROVE  RemoveFirst(Queue(m, k), p) = Queue(m, k)
<1>1. CASE \E t \in Members(m, semd_h) : m.key[t] = k
  <2>1. PICK t \in Members(m, semd_h) : m.key[t] = k
    BY <1>1
  <2>. DEFINE o == s_procq(t)
  <2>2. o \in Heads /\ Queue(m, k) = Entries(m, o) /\ p \notin Members(m, o)
    BY <2>1, MembersAre, HeadTags, QueueOf
  <2>. HIDE DEF o
  <2>3. Entries(m, o) \in Seq(Owner(o)) /\ p \notin Range(Entries(m, o))
    BY <2>2, MembersOfList
  <2>4. RemoveFirst(Entries(m, o), p) = Entries(m, o)
    BY <2>3, RemoveNothing
  <2>. QED  BY <2>2, <2>4
<1>2. CASE \A t \in Members(m, semd_h) : m.key[t] # k
  <2>1. Queue(m, k) = <<>>
    BY <1>2, QueueOf
  <2>2. <<>> \in Seq(PCB) /\ p \notin Range(<<>>)
    <3>1. <<>> \in Seq(PCB) /\ Len(<<>>) = 0 /\ DOMAIN <<>> = {}
      BY EmptySeq
    <3>. QED  BY <3>1 DEF Range
  <2>3. RemoveFirst(<<>>, p) = <<>>
    BY <2>2, RemoveNothing
  <2>. QED  BY <2>1, <2>3
<1>. QED  BY <1>1, <1>2

\* outProcQ on the ready queue, for a process that waits on no semaphore and
\* is not free.
LEMMA OutReadyOk ==
  ASSUME NEW m, NEW out, Ok(m, out), NEW p \in PCB, p \notin Members(m, pcbFree_h),
         \A s \in SEMD : p \notin Members(m, s_procq(s)), NEW n, n = outProcQ(m, ready_queue, p)
  PROVE  /\ Ok(n, out \cup {p}) /\ FreeIs(n, Members(m, pcbFree_h)) /\ SameParents(m, n)
         /\ Dropped(m, n, p)
<1>1. WellFormed(m) /\ AslOk(m) /\ TreeOk(m) /\ OutIs(m, out)
  BY DEF Ok
<1>2. ready_queue \in Heads /\ Tag(ready_queue) = "p_list"
  BY HeadTags
<1>3. /\ Updated(m, n, ready_queue, RemoveFirst(Entries(m, ready_queue), p), Members(m, ready_queue) \ {p})
      /\ SameFields(m, n)
  BY <1>1, <1>2, outProcQ_Removes
<1>4. n.parent = m.parent /\ n.semAdd = m.semAdd /\ n.key = m.key
  BY <1>3 DEF SameFields
<1>5. AslOk(n) /\ SameWaiters(m, n)
  BY <1>1, <1>2, <1>3, <1>4, AslUntouched
<1>6. /\ FreeIs(n, Members(m, pcbFree_h))
      /\ Entries(n, ready_queue) = RemoveFirst(Entries(m, ready_queue), p)
  BY <1>3, HeadTags, HeadsDiffer DEF Updated, SameOthers, FreeIs
<1>7. TreeOk(n)
  <2>1. \A q \in PCB : Members(n, p_child(q)) = Members(m, p_child(q))
    BY <1>3, HeadTags, HeadsDiffer DEF Updated, SameOthers
  <2>. QED  BY <1>1, <1>4, <1>6, <2>1, TreeKept, MembersAre DEF FreeIs
<1>8. OutIs(n, out \cup {p})
  <2>1. CASE p \in Members(m, ready_queue)
    BY <1>1, <1>2, <1>3, <2>1, OutAfterTake
  <2>2. CASE p \notin Members(m, ready_queue)
    <3>1. p \in out /\ out \cup {p} = out
      BY <1>1, <2>2, LooseProcess DEF OutIs
    <3>2. \A o \in Heads : Members(n, o) = Members(m, o)
      BY <1>3, <2>2 DEF Updated, SameOthers
    <3>. QED  BY <1>1, <3>1, <3>2 DEF OutIs, Loose
  <2>. QED  BY <2>1, <2>2
<1>9. WellFormed(n)
  BY <1>3 DEF Updated
<1>10. \A k \in Key : Queue(n, k) = RemoveFirst(Queue(m, k), p)
  <2>1. \A k \in Key : RemoveFirst(Queue(m, k), p) = Queue(m, k)
    BY <1>1, NotInQueue
  <2>. QED  BY <1>5, <2>1 DEF SameWaiters
<1>. QED  BY <1>4, <1>5, <1>6, <1>7, <1>8, <1>9, <1>10 DEF Ok, SameParents, Dropped

\* removePcb takes the process out of the queue it is in, and frees it.
LEMMA RemoveOk ==
  ASSUME NEW m, NEW out, Ok(m, out), NEW p \in PCB, p \notin Members(m, pcbFree_h),
         m.parent[p] = NULL, Members(m, p_child(p)) = {}, NEW n, n = removePcb(m, p)
  PROVE  /\ Ok(n, out \ {p}) /\ FreeIs(n, Members(m, pcbFree_h) \cup {p})
         /\ SameParents(m, n) /\ Dropped(m, n, p)
<1>1. WellFormed(m) /\ AslOk(m) /\ TreeOk(m)
  BY DEF Ok
<1>. DEFINE b == IF m.semAdd[p] # NULL THEN outBlocked(m, p) ELSE m
            d == outProcQ(b, ready_queue, p)
<1>2. n = freePcb(d, p)
  BY DEF removePcb
<1>3. /\ Ok(d, out \cup {p}) /\ FreeIs(d, Members(m, pcbFree_h)) /\ SameParents(m, d)
      /\ Dropped(m, d, p)
  <2>1. CASE \E s \in SEMD : p \in Members(m, s_procq(s))
    <3>1. m.semAdd[p] # NULL
      BY <1>1, <2>1, KeysAreAddresses DEF AslOk
    <3>2. b = outBlocked(m, p)
      BY <3>1
    <3>. HIDE DEF b
    <3>3. /\ Ok(b, out \cup {p}) /\ FreeIs(b, Members(m, pcbFree_h)) /\ SameParents(m, b)
          /\ Dropped(m, b, p)
      BY <2>1, <3>2, outBlocked_Takes
    <3>4. p \notin Members(b, ready_queue)
      BY <3>3, LooseProcess DEF Ok, OutIs
    <3>5. d = b
      BY <3>4 DEF outProcQ
    <3>. QED  BY <3>3, <3>5
  <2>2. CASE ~(\E s \in SEMD : p \in Members(m, s_procq(s)))
    <3>1. b = m
      BY <2>2, outBlocked_Takes
    <3>2. d = outProcQ(m, ready_queue, p)
      BY <3>1
    <3>. HIDE DEF b, d
    <3>. QED  BY <2>2, <3>2, OutReadyOk
  <2>. QED  BY <2>1, <2>2
<1>. HIDE DEF b, d
<1>4. d.parent[p] = NULL /\ Members(d, p_child(p)) = {}
  <2>1. d.parent = m.parent
    BY <1>3 DEF SameParents
  <2>2. \A q \in PCB : m.parent[q] # p
    BY <1>1 DEF TreeOk
  <2>3. Members(d, p_child(p)) \subseteq PCB /\ \A q \in PCB : q \notin Members(d, p_child(p))
    BY <1>3, <2>1, <2>2, MembersAre DEF Ok, TreeOk
  <2>. QED  BY <2>1, <2>3
<1>5. /\ Ok(n, (out \cup {p}) \ {p}) /\ FreeIs(n, Members(d, pcbFree_h) \cup {p})
      /\ ReadyIs(n, Entries(d, ready_queue)) /\ SameWaiters(d, n) /\ SameParents(d, n)
  BY <1>2, <1>3, <1>4, FreeOk
<1>6. Ok(n, out \ {p})
  <2>1. (out \cup {p}) \ {p} = out \ {p}
    OBVIOUS
  <2>. QED  BY <1>5, <2>1
<1>7. FreeIs(n, Members(m, pcbFree_h) \cup {p}) /\ SameParents(m, n)
  BY <1>3, <1>5 DEF FreeIs, SameParents
<1>8. Dropped(m, n, p)
  BY <1>3, <1>5 DEF Dropped, ReadyIs, SameWaiters
<1>. QED  BY <1>6, <1>7, <1>8

-----------------------------------------------------------------------------
(* insertBlocked *)

\* The descriptor goes somewhere in the ASL.
LEMMA add_to_semd_Inserts ==
  ASSUME NEW m, WellFormed(m), NEW s \in SEMD, Loose(m, "s_link", s), NEW v, NEW k,
         NEW n, n = add_to_semd(m, v, s, k)
  PROVE  /\ \E e : Updated(m, n, semd_h, e, Members(m, semd_h) \cup {s})
         /\ SameFields(m, n)
<1>. DEFINE hd == semd_h
            list == Entries(m, hd)
            c == Cells(m.links, hd)
            greater == {i \in DOMAIN list : v[m.key[list[i]]] > v[k]}
            i0 == CHOOSE i \in greater : \A j \in greater : i <= j
            next == IF greater = {} THEN hd ELSE s_link(list[i0])
            prev == m.links.prev[next]
            g == AddBetween(m.links, s_link(s), prev, next)
<1>1. hd \in Heads /\ Tag(hd) = "s_link" /\ hd \in Cell /\ m \in Mem /\ m.links \in HeapOn(Cell)
  BY HeadTags, HeadsAndItems, MemoryOf
<1>2. /\ list \in Seq(Owner(hd)) /\ Len(list) = Len(c) /\ Len(c) \in Nat
      /\ \A i \in 1 .. Len(c) : c[i] = <<Tag(hd), list[i]>>
  BY <1>1, EntriesOfList
<1>3. IsList(m.links, hd, c)
  BY <1>1 DEF WellFormed, Shelves
<1>4. n = [m EXCEPT !.links = g]
  BY DEF add_to_semd
<1>. DEFINE at == IF greater = {} THEN Len(list) ELSE i0 - 1
<1>5. at \in 0 .. Len(list) /\ next = Place(hd, c, at + 1)
  <2>1. CASE greater = {}
    <3>1. at = Len(list) /\ next = hd
      BY <2>1
    <3>. HIDE DEF at, next, hd, list, c
    <3>2. Len(c) + 1 \notin 1 .. Len(c)
      BY <1>2
    <3>. QED  BY <1>2, <3>1, <3>2 DEF Place
  <2>2. CASE greater # {}
    <3>1. DOMAIN list = 1 .. Len(list)
      BY <1>2, LenProperties
    <3>2. greater \in SUBSET Nat
      BY <3>1
    <3>. HIDE DEF greater
    <3>3. i0 \in greater
      BY <2>2, <3>2, LeastNumber
    <3>. HIDE DEF i0
    <3>4. i0 \in 1 .. Len(list)
      BY <3>1, <3>3 DEF greater
    <3>5. at = i0 - 1 /\ next = s_link(list[i0])
      BY <2>2
    <3>. HIDE DEF at, next, hd, list, c
    <3>6. at \in 0 .. Len(list) /\ at + 1 = i0
      BY <1>2, <3>4, <3>5
    <3>7. c[i0] = <<Tag(hd), list[i0]>> /\ Tag(hd) = "s_link"
      BY <1>1, <1>2, <3>4
    <3>8. s_link(list[i0]) = <<"s_link", list[i0]>>
      BY DEF s_link
    <3>. QED  BY <1>2, <3>4, <3>5, <3>6, <3>7, <3>8 DEF Place
  <2>. QED  BY <2>1, <2>2
<1>. HIDE DEF at, next
<1>6. prev = Place(hd, c, at) /\ prev \in Cell /\ next \in Cell
  <2>. HIDE DEF prev, c, list, hd
  <2>1. at \in 0 .. Len(c)
    BY <1>2, <1>5
  <2>2. /\ m.links.next[Place(hd, c, at)] = next /\ Place(hd, c, at) \in Cell /\ next \in Cell
    BY <1>1, <1>3, <1>5, <2>1, PlaceIsInList
  <2>3. m.links.prev[next] = Place(hd, c, at)
    BY <1>1, <2>2, HeapCells
  <2>. QED  BY <2>2, <2>3 DEF prev
<1>7. s_link(s) = <<Tag(hd), s>> /\ s \in Owner(hd) /\ s_link(s) \in Cell
  <2>1. s_link(s) = <<Tag(hd), s>> /\ s \in Owner(hd)
    BY <1>1 DEF s_link, Owner
  <2>. QED  BY <1>1, <2>1, ItemOfEntry, HeadsAndItems
<1>. HIDE DEF prev
<1>8. g \in Links(Cell)
  BY <1>1, <1>6, <1>7, AddWrites
<1>9. g = AddBetween(m.links, <<Tag(hd), s>>, prev, next)
  BY <1>7
<1>. HIDE DEF g
<1>10. n \in Mem /\ n.links = g /\ SameFields(m, n)
  BY <1>1, <1>4, <1>8, NewLinks
<1>11. n.links = AddBetween(m.links, <<Tag(hd), s>>, prev, next) /\ Loose(m, Tag(hd), s)
  BY <1>1, <1>9, <1>10
<1>. HIDE DEF hd
<1>12. Updated(m, n, hd, InsertAt(Entries(m, hd), at + 1, s), Members(m, hd) \cup {s})
  BY <1>1, <1>5, <1>6, <1>7, <1>10, <1>11, PutEntry
<1>. QED  BY <1>10, <1>12 DEF hd

\* A free descriptor enters the ASL for an address.
Enlisted(m, d, s, k) ==
  /\ WellFormed(d) /\ KeyBecomes(m, d, s, k)
  /\ Members(d, semd_h) = Members(m, semd_h) \cup {s}
  /\ Members(d, semdFree_h) = Members(m, semdFree_h) \ {s}
  /\ \A o \in Heads : o \notin {semd_h, semdFree_h} =>
       Entries(d, o) = Entries(m, o) /\ Members(d, o) = Members(m, o)

\* The memory of insertBlocked before the process is put in the new queue.
NewEntry(m, v, k) ==
  LET new   == First(m, semdFree_h)
      taken == [m EXCEPT !.links = list_del(@, s_link(new))]
  IN  [add_to_semd(taken, v, new, k) EXCEPT !.key[new] = k]

\* The first free descriptor enters the ASL.
LEMMA NewEntry_Enlists ==
  ASSUME NEW m, WellFormed(m), NEW s, s = First(m, semdFree_h), Members(m, semdFree_h) # {},
         NEW v, NEW k \in Key, NEW d, d = NewEntry(m, v, k)
  PROVE  s \in SEMD /\ s \in Members(m, semdFree_h) /\ Enlisted(m, d, s, k)
<1>1. semdFree_h \in Heads /\ Tag(semdFree_h) = "s_link" /\ semd_h \in Heads
      /\ Tag(semd_h) = "s_link" /\ semd_h # semdFree_h
  BY HeadTags, HeadsDiffer
<1>2. s \in Members(m, semdFree_h) /\ s \in SEMD
  BY <1>1, FirstOfList, MembersAre
<1>. DEFINE t == [m EXCEPT !.links = list_del(@, <<Tag(semdFree_h), s>>)]
            a == add_to_semd(t, v, s, k)
<1>3. /\ Updated(m, t, semdFree_h, RemoveFirst(Entries(m, semdFree_h), s), Members(m, semdFree_h) \ {s})
      /\ SameFields(m, t)
  BY <1>1, <1>2, DeleteEntry
<1>4. s_link(s) = <<Tag(semdFree_h), s>>
  BY <1>1 DEF s_link
<1>5. d = [a EXCEPT !.key[s] = k]
  BY <1>4 DEF NewEntry
<1>. HIDE DEF t
<1>6. WellFormed(t)
  BY <1>3 DEF Updated
<1>7. Loose(t, "s_link", s)
  <2>1. ASSUME NEW o \in Heads, Tag(o) = "s_link" PROVE s \notin Members(t, o)
    <3>1. CASE o = semdFree_h
      BY <1>3, <3>1 DEF Updated
    <3>2. CASE o # semdFree_h
      <4>1. s \notin Members(m, o)
        BY <1>1, <1>2, <2>1, <3>2, OneListForEach
      <4>. QED  BY <1>3, <3>2, <4>1 DEF Updated, SameOthers
    <3>. QED  BY <3>1, <3>2
  <2>. QED  BY <2>1 DEF Loose
<1>8. (\E e : Updated(t, a, semd_h, e, Members(t, semd_h) \cup {s})) /\ SameFields(t, a)
  BY <1>2, <1>6, <1>7, add_to_semd_Inserts
<1>9. PICK e : Updated(t, a, semd_h, e, Members(t, semd_h) \cup {s})
  BY <1>8
<1>. HIDE DEF a
<1>10. WellFormed(a) /\ a \in Mem
  BY <1>9, MemoryOf DEF Updated
<1>11. k \in Key \cup {NULL}
  OBVIOUS
<1>12. d \in Mem /\ SameLists(a, d) /\ KeyBecomes(a, d, s, k)
  BY <1>2, <1>5, <1>10, <1>11, SetKey
<1>13. Updated(t, d, semd_h, e, Members(t, semd_h) \cup {s})
  BY <1>1, <1>9, <1>12, UpdatedThenSame
<1>14. KeyBecomes(m, d, s, k)
  BY <1>3, <1>8, <1>12 DEF SameFields, KeyBecomes
<1>15. Members(d, semd_h) = Members(m, semd_h) \cup {s}
  BY <1>1, <1>3, <1>13 DEF Updated, SameOthers
<1>16. Members(d, semdFree_h) = Members(m, semdFree_h) \ {s}
  BY <1>1, <1>3, <1>13 DEF Updated, SameOthers
<1>17. ASSUME NEW o \in Heads, o \notin {semd_h, semdFree_h}
       PROVE  Entries(d, o) = Entries(m, o) /\ Members(d, o) = Members(m, o)
  BY <1>3, <1>13, <1>17 DEF Updated, SameOthers
<1>18. WellFormed(d)
  BY <1>13 DEF Updated
<1>. QED  BY <1>2, <1>14, <1>15, <1>16, <1>17, <1>18 DEF Enlisted

\* In d the descriptor s is that of the address k, with the queue that k has in
\* m, and nothing else that matters changes.
Serves(m, d, s, k) ==
  /\ WellFormed(d) /\ d.parent = m.parent /\ d.semAdd = m.semAdd /\ d.key[s] = k
  /\ \A t \in Members(m, semd_h) : /\ t = s <=> m.key[t] = k
                                   /\ d.key[t] = m.key[t]
  /\ Members(d, semd_h) = Members(m, semd_h) \cup {s}
  /\ \A t \in SEMD : t \in Members(d, semd_h) \/ t \in Members(d, semdFree_h)
  /\ \A o \in Heads : o \notin {semd_h, semdFree_h} =>
       Entries(d, o) = Entries(m, o) /\ Members(d, o) = Members(m, o)
  /\ Queue(m, k) = Entries(m, s_procq(s))

\* A process enters the queue of a descriptor that serves the address.
LEMMA GainWaiter ==
  ASSUME NEW m, NEW out, Ok(m, out), NEW p \in PCB, p \in out, NEW k \in Key, NEW s \in SEMD,
         NEW d, Serves(m, d, s, k), NEW e, e = Append(Queue(m, k), p),
         NEW n, Updated(d, n, s_procq(s), e, Members(d, s_procq(s)) \cup {p}),
         SemAddBecomes(d, n, p, k)
  PROVE  /\ Ok(n, out \ {p}) /\ FreeIs(n, Members(m, pcbFree_h))
         /\ ReadyIs(n, Entries(m, ready_queue)) /\ SameParents(m, n)
         /\ WaitersBecome(m, n, k, e)
<1>1. WellFormed(m) /\ AslOk(m) /\ TreeOk(m) /\ OutIs(m, out) /\ m \in Mem
  BY MemoryOf DEF Ok
<1>. DEFINE hd == s_procq(s)
<1>2. /\ hd \in Heads /\ Tag(hd) = "p_list"
      /\ hd \notin {pcbFree_h, semdFree_h, semd_h, ready_queue}
      /\ (\A q \in PCB : hd # p_child(q)) /\ \A t \in SEMD : t # s => hd # s_procq(t)
  BY HeadTags, HeadsDiffer
<1>3. \A t \in SEMD : p \notin Members(m, s_procq(t))
  BY <1>1, LooseProcess DEF OutIs
<1>4. /\ \A t \in Members(m, semd_h) : /\ t = s <=> m.key[t] = k
                                       /\ d.key[t] = m.key[t]
      /\ Members(d, semd_h) = Members(m, semd_h) \cup {s}
      /\ \A t \in SEMD : t \in Members(d, semd_h) \/ t \in Members(d, semdFree_h)
      /\ \A o \in Heads : o \notin {semd_h, semdFree_h} =>
           Entries(d, o) = Entries(m, o) /\ Members(d, o) = Members(m, o)
      /\ Queue(m, k) = Entries(m, hd)
  BY DEF Serves
<1>5. WellFormed(d) /\ d.parent = m.parent /\ d.semAdd = m.semAdd /\ d.key[s] = k
  BY DEF Serves
<1>6. OutIs(n, out \ {p})
  <2>1. \A o \in Heads : Tag(o) = "p_list" => o \notin {semd_h, semdFree_h}
    BY HeadTags
  <2>2. OutIs(d, out)
    BY <1>1, <1>4, <2>1 DEF OutIs, Loose
  <2>. QED  BY <1>2, <2>2, OutAfterPut
<1>. HIDE DEF hd
<1>7. /\ WellFormed(n) /\ Entries(n, hd) = e /\ Members(n, hd) = Members(m, hd) \cup {p}
      /\ \A o \in Heads : o # hd => Entries(n, o) = Entries(d, o) /\ Members(n, o) = Members(d, o)
  <2>1. Members(d, hd) = Members(m, hd)
    BY <1>2, <1>4
  <2>. QED  BY <2>1 DEF Updated, SameOthers, hd
<1>8. n.parent = m.parent /\ n.key = d.key /\ n.semAdd = [m.semAdd EXCEPT ![p] = k]
  BY <1>5 DEF SemAddBecomes
<1>9. /\ Members(n, pcbFree_h) = Members(m, pcbFree_h) /\ Entries(n, ready_queue) = Entries(m, ready_queue)
      /\ \A q \in PCB : Members(n, p_child(q)) = Members(m, p_child(q))
      /\ Members(n, semd_h) = Members(m, semd_h) \cup {s} /\ Members(n, semdFree_h) = Members(d, semdFree_h)
      /\ \A t \in SEMD : t # s => /\ Members(n, s_procq(t)) = Members(m, s_procq(t))
                                  /\ Entries(n, s_procq(t)) = Entries(m, s_procq(t))
  BY <1>2, <1>4, <1>7, HeadTags, HeadsDiffer
<1>10. TreeOk(n)
  BY <1>1, <1>8, <1>9, TreeKept, MembersAre
<1>11. AslOk(n)
  <2>1. \A t \in SEMD : t \in Members(n, semd_h) \/ t \in Members(n, semdFree_h)
    BY <1>4, <1>9
  <2>2. \A t \in SEMD : t \in Members(n, semd_h) <=> Members(n, s_procq(t)) # {}
    <3>1. \A t \in SEMD : t \in Members(m, semd_h) <=> Members(m, s_procq(t)) # {}
      BY <1>1 DEF AslOk
    <3>. QED  BY <1>7, <1>9, <3>1 DEF hd
  <2>3. /\ \A t \in Members(n, semd_h) : n.key[t] \in Key
        /\ \A t, u \in Members(n, semd_h) : n.key[t] = n.key[u] => t = u
    <3>1. /\ \A t \in Members(m, semd_h) : m.key[t] \in Key
          /\ \A t, u \in Members(m, semd_h) : m.key[t] = m.key[u] => t = u
      BY <1>1 DEF AslOk
    <3>. QED  BY <1>4, <1>5, <1>8, <1>9, <3>1
  <2>4. ASSUME NEW t \in SEMD, NEW q \in Members(n, s_procq(t)) PROVE n.semAdd[q] = n.key[t]
    <3>1. CASE q = p
      <4>1. t = s
        BY <1>3, <1>9, <2>4, <3>1
      <4>2. n.semAdd[p] = k
        BY <1>1, <1>8 DEF Mem
      <4>. QED  BY <1>5, <1>8, <3>1, <4>1, <4>2
    <3>2. CASE q # p
      <4>1. q \in Members(m, s_procq(t))
        BY <1>7, <1>9, <2>4, <3>2 DEF hd
      <4>2. t \in Members(m, semd_h) /\ m.semAdd[q] = m.key[t] /\ q \in PCB
        BY <1>1, <4>1, MembersAre DEF AslOk
      <4>3. n.semAdd[q] = m.semAdd[q]
        BY <1>1, <1>8, <3>2, <4>2 DEF Mem
      <4>. QED  BY <1>4, <1>8, <4>2, <4>3
    <3>. QED  BY <3>1, <3>2
  <2>. QED  BY <2>1, <2>2, <2>3, <2>4 DEF AslOk
<1>12. ASSUME NEW j \in Key PROVE Queue(n, j) = IF j = k THEN e ELSE Queue(m, j)
  <2>1. CASE j = k
    <3>1. s \in Members(n, semd_h) /\ n.key[s] = k
      BY <1>5, <1>8, <1>9
    <3>2. Queue(n, k) = Entries(n, s_procq(s))
      BY <1>7, <1>11, <3>1, QueueOf
    <3>. QED  BY <1>7, <2>1, <3>2 DEF hd
  <2>2. CASE j # k
    <3>1. CASE \E t \in Members(m, semd_h) : m.key[t] = j
      <4>1. PICK t \in Members(m, semd_h) : m.key[t] = j
        BY <3>1
      <4>2. t # s /\ t \in Members(n, semd_h) /\ n.key[t] = j /\ t \in SEMD
        BY <1>1, <1>4, <1>8, <1>9, <2>2, <4>1, MembersAre
      <4>3. Queue(n, j) = Entries(n, s_procq(t))
        BY <1>7, <1>11, <4>2, QueueOf
      <4>4. Queue(m, j) = Entries(m, s_procq(t))
        BY <1>1, <4>1, QueueOf
      <4>. QED  BY <1>9, <2>2, <4>2, <4>3, <4>4
    <3>2. CASE \A t \in Members(m, semd_h) : m.key[t] # j
      <4>1. \A t \in Members(n, semd_h) : n.key[t] # j
        BY <1>4, <1>5, <1>8, <1>9, <2>2, <3>2
      <4>2. Queue(n, j) = <<>> /\ Queue(m, j) = <<>>
        BY <1>1, <1>7, <1>11, <3>2, <4>1, QueueOf
      <4>. QED  BY <2>2, <4>2
    <3>. QED  BY <3>1, <3>2
  <2>. QED  BY <2>1, <2>2
<1>13. FreeIs(n, Members(m, pcbFree_h)) /\ ReadyIs(n, Entries(m, ready_queue)) /\ SameParents(m, n)
  BY <1>8, <1>9 DEF FreeIs, ReadyIs, SameParents
<1>. QED  BY <1>6, <1>7, <1>10, <1>11, <1>12, <1>13 DEF Ok, WaitersBecome

\* insertBlocked, while there are free descriptors.
LEMMA BlockOk ==
  ASSUME NEW m, NEW out, Ok(m, out), NEW p \in PCB, p \in out, NEW k \in Key,
         Members(m, semdFree_h) # {}, NEW v, NEW n, n = insertBlocked(m, v, k, p)
  PROVE  /\ Ok(n, out \ {p}) /\ FreeIs(n, Members(m, pcbFree_h))
         /\ ReadyIs(n, Entries(m, ready_queue)) /\ SameParents(m, n)
         /\ WaitersBecome(m, n, k, Append(Queue(m, k), p))
<1>1. WellFormed(m) /\ AslOk(m) /\ OutIs(m, out) /\ m \in Mem
  BY MemoryOf DEF Ok
<1>2. Loose(m, "p_list", p)
  BY <1>1 DEF OutIs
<1>3. ~Empty(m, semdFree_h)
  BY <1>1, HeadTags, FirstOfList
<1>4. k \in Key \cup {NULL}
  OBVIOUS
<1>. DEFINE s == search_key(m, k)
<1>5. CASE s # NULL
  <2>1. s \in Members(m, semd_h) /\ m.key[s] = k /\ s \in SEMD
    BY <1>1, <1>5, search_key_Finds, MembersAre
  <2>. DEFINE hd == s_procq(s)
              a == insertProcQ(m, hd, p)
  <2>2. n = [a EXCEPT !.semAdd[p] = k]
    BY <1>5 DEF insertBlocked
  <2>3. hd \in Heads /\ Tag(hd) = "p_list"
    BY <2>1, HeadTags
  <2>4. Serves(m, m, s, k)
    <3>1. Queue(m, k) = Entries(m, s_procq(s))
      BY <1>1, <2>1, QueueOf
    <3>2. \A t \in Members(m, semd_h) : t = s <=> m.key[t] = k
      BY <1>1, <2>1 DEF AslOk
    <3>3. \A t \in SEMD : t \in Members(m, semd_h) \/ t \in Members(m, semdFree_h)
      BY <1>1 DEF AslOk
    <3>4. Members(m, semd_h) = Members(m, semd_h) \cup {s}
      BY <2>1
    <3>. HIDE DEF s
    <3>. QED  BY <1>1, <2>1, <3>1, <3>2, <3>3, <3>4 DEF Serves
  <2>5. Queue(m, k) = Entries(m, hd)
    BY <2>4 DEF Serves
  <2>. HIDE DEF hd, a, s
  <2>6. Updated(m, a, hd, Append(Entries(m, hd), p), Members(m, hd) \cup {p}) /\ SameFields(m, a)
    BY <1>1, <1>2, <2>3, insertProcQ_Appends DEF a
  <2>7. a \in Mem
    BY <2>6, MemoryOf DEF Updated
  <2>8. n \in Mem /\ SameLists(a, n) /\ SemAddBecomes(a, n, p, k)
    BY <1>4, <2>2, <2>7, SetSemAdd
  <2>9. SemAddBecomes(m, n, p, k)
    BY <2>6, <2>8 DEF SameFields, SemAddBecomes
  <2>10. Updated(m, n, hd, Append(Queue(m, k), p), Members(m, hd) \cup {p})
    BY <2>3, <2>5, <2>6, <2>8, UpdatedThenSame
  <2>. QED  BY <2>1, <2>4, <2>9, <2>10, GainWaiter DEF hd
<1>6. CASE s = NULL
  <2>. DEFINE new == First(m, semdFree_h)
              d == NewEntry(m, v, k)
              hd == s_procq(new)
  <2>1. new \in SEMD /\ new \in Members(m, semdFree_h) /\ Enlisted(m, d, new, k)
    BY <1>1, NewEntry_Enlists
  <2>2. new \notin Members(m, semd_h)
    BY <1>1, <2>1, OneQueue
  <2>3. Members(m, hd) = {} /\ hd \in Heads /\ Tag(hd) = "p_list" /\ hd \notin {semd_h, semdFree_h}
    BY <1>1, <2>1, <2>2, HeadTags, HeadsDiffer DEF AslOk
  <2>4. \A t \in Members(m, semd_h) : m.key[t] # k
    BY <1>1, <1>6, search_key_Finds, MembersAre, TablesAreArrays
  <2>5. Entries(m, hd) = <<>> /\ Queue(m, k) = <<>>
    BY <1>1, <2>3, <2>4, FirstOfList, QueueOf
  <2>. HIDE DEF d
  <2>6. /\ WellFormed(d) /\ d.key = [m.key EXCEPT ![new] = k] /\ d.parent = m.parent /\ d.semAdd = m.semAdd
        /\ Members(d, semd_h) = Members(m, semd_h) \cup {new}
        /\ Members(d, semdFree_h) = Members(m, semdFree_h) \ {new}
        /\ \A o \in Heads : o \notin {semd_h, semdFree_h} =>
             Entries(d, o) = Entries(m, o) /\ Members(d, o) = Members(m, o)
    BY <2>1 DEF Enlisted, KeyBecomes
  <2>7. Serves(m, d, new, k)
    <3>1. d.key[new] = k /\ \A t \in Members(m, semd_h) : d.key[t] = m.key[t]
      BY <1>1, <2>1, <2>2, <2>6, MembersAre DEF Mem
    <3>2. \A t \in Members(m, semd_h) : t = new <=> m.key[t] = k
      BY <2>2, <2>4
    <3>3. \A t \in SEMD : t \in Members(d, semd_h) \/ t \in Members(d, semdFree_h)
      BY <1>1, <2>6 DEF AslOk
    <3>. QED  BY <2>5, <2>6, <3>1, <3>2, <3>3 DEF Serves
  <2>8. Members(d, hd) = {} /\ Entries(d, hd) = <<>>
    BY <2>3, <2>5, <2>6
  <2>9. d \in Mem /\ d.links \in Links(Cell) /\ d.links \in HeapOn(Cell)
    BY <2>6, MemoryOf
  <2>10. INIT_LIST_HEAD(d.links, hd) = d.links
    BY <2>3, <2>6, <2>8, <2>9, EmptyIsAlone, InitOfAlone, HeadsAndItems
  <2>. DEFINE added == [add_to_semd([m EXCEPT !.links = list_del(@, s_link(new))], v, new, k) EXCEPT
                          !.key[new] = k, !.links = INIT_LIST_HEAD(@, s_procq(new))]
  <2>11. added = d
    <3>. DEFINE b == add_to_semd([m EXCEPT !.links = list_del(@, s_link(new))], v, new, k)
    <3>1. d = [b EXCEPT !.key[new] = k]
      BY DEF d, NewEntry
    <3>2. added = [b EXCEPT !.key[new] = k, !.links = INIT_LIST_HEAD(@, hd)]
      OBVIOUS
    <3>3. b = [m EXCEPT !.links = b.links]
      <4>. DEFINE y == list_del(m.links, s_link(new))
                  t == [m EXCEPT !.links = y]
      <4>1. b = add_to_semd(t, v, new, k)
        OBVIOUS
      <4>. HIDE DEF b, y
      <4>2. t.links = y
        BY <1>1 DEF Mem
      <4>. HIDE DEF t
      <4>3. PICK x : b = [t EXCEPT !.links = x]
        BY <4>1 DEF add_to_semd
      <4>. QED  BY <1>1, <4>3 DEF Mem, t
    <3>. HIDE DEF b, hd, added
    <3>4. d.links = b.links
      BY <1>1, <3>1, <3>3 DEF Mem
    <3>5. INIT_LIST_HEAD(b.links, hd) = b.links
      BY <2>10, <3>4
    <3>6. added = [b EXCEPT !.key[new] = k]
      <4>. DEFINE g == b.links
      <4>1. added = [b EXCEPT !.key[new] = k, !.links = g] /\ b = [m EXCEPT !.links = g]
        BY <3>2, <3>3, <3>5
      <4>. HIDE DEF g
      <4>. QED  BY <1>1, <4>1 DEF Mem
    <3>. QED  BY <3>1, <3>6
  <2>12. n = [added EXCEPT !.links = list_add(@, p_list(p), hd), !.semAdd[p] = k]
    BY <1>3, <1>6 DEF insertBlocked
  <2>. HIDE DEF added, hd
  <2>. DEFINE g == list_add(d.links, p_list(p), hd)
              c == [d EXCEPT !.links = g]
  <2>13. n = [c EXCEPT !.semAdd[p] = k]
    BY <2>9, <2>11, <2>12 DEF Mem
  <2>14. p_list(p) = <<Tag(hd), p>> /\ p \in Owner(hd) /\ p_list(p) \in Cell /\ hd \in Cell
    <3>1. p_list(p) = <<Tag(hd), p>> /\ p \in Owner(hd)
      BY <2>3 DEF p_list, Owner
    <3>. QED  BY <2>3, <3>1, ItemOfEntry, HeadsAndItems
  <2>15. g \in Links(Cell) /\ g = list_add(d.links, <<Tag(hd), p>>, hd)
    BY <2>9, <2>14, LinksOfCells
  <2>. HIDE DEF g
  <2>16. c \in Mem /\ c.links = g /\ SameFields(d, c)
    BY <2>9, <2>15, NewLinks
  <2>. HIDE DEF c
  <2>17. c.links = list_add(d.links, <<Tag(hd), p>>, hd)
    BY <2>15, <2>16
  <2>18. Loose(d, Tag(hd), p)
    <3>1. \A o \in Heads : Tag(o) = "p_list" => o \notin {semd_h, semdFree_h}
      BY HeadTags
    <3>. QED  BY <1>2, <2>3, <2>6, <3>1 DEF Loose
  <2>19. Updated(d, c, hd, InsertAt(Entries(d, hd), 1, p), Members(d, hd) \cup {p})
    BY <2>3, <2>6, <2>14, <2>16, <2>17, <2>18, PutFirst
  <2>20. InsertAt(Entries(d, hd), 1, p) = Append(Queue(m, k), p)
    <3>1. <<>> \in Seq(PCB) /\ Len(<<>>) = 0
      BY EmptySeq
    <3>2. InsertAt(<<>>, Len(<<>>) + 1, p) = Append(<<>>, p)
      BY <3>1, InsertLast
    <3>3. Len(<<>>) + 1 = 1
      BY <3>1
    <3>. QED  BY <2>5, <2>8, <3>2, <3>3
  <2>21. n \in Mem /\ SameLists(c, n) /\ SemAddBecomes(c, n, p, k)
    BY <1>4, <2>13, <2>16, SetSemAdd
  <2>22. SemAddBecomes(d, n, p, k)
    BY <2>16, <2>21 DEF SameFields, SemAddBecomes
  <2>23. Updated(d, n, hd, Append(Queue(m, k), p), Members(d, hd) \cup {p})
    BY <2>3, <2>19, <2>20, <2>21, UpdatedThenSame
  <2>. HIDE DEF new
  <2>. QED  BY <2>1, <2>7, <2>22, <2>23, GainWaiter DEF hd
<1>. QED  BY <1>5, <1>6

-----------------------------------------------------------------------------
(* killTree *)

\* A process leaves the children of its parent.
LEMMA OrphanOk ==
  ASSUME NEW m, NEW out, Ok(m, out), NEW r \in PCB, NEW x \in Members(m, p_child(r)), NEW e,
         NEW n, Updated(m, n, p_child(r), e, Members(m, p_child(r)) \ {x}),
         ParentBecomes(m, n, x, NULL)
  PROVE  /\ x \in PCB /\ m.parent[x] = r
         /\ Ok(n, out) /\ FreeIs(n, Members(m, pcbFree_h))
         /\ ReadyIs(n, Entries(m, ready_queue)) /\ SameWaiters(m, n)
<1>1. WellFormed(m) /\ AslOk(m) /\ TreeOk(m) /\ OutIs(m, out) /\ m \in Mem
  BY MemoryOf DEF Ok
<1>. DEFINE hd == p_child(r)
<1>2. hd \in Heads /\ Tag(hd) = "p_sib" /\ \E q \in PCB : hd = p_child(q)
  BY HeadTags
<1>3. x \in PCB /\ m.parent[x] = r
  BY <1>1, MembersAre DEF TreeOk
<1>4. n.parent = [m.parent EXCEPT ![x] = NULL] /\ n.semAdd = m.semAdd /\ n.key = m.key
  BY DEF ParentBecomes
<1>5. AslOk(n) /\ SameWaiters(m, n)
  <2>. HIDE DEF hd
  <2>1. Updated(m, n, hd, e, Members(m, hd) \ {x})
    BY DEF hd
  <2>. QED  BY <1>1, <1>2, <1>4, <2>1, AslUntouched
<1>6. FreeIs(n, Members(m, pcbFree_h)) /\ ReadyIs(n, Entries(m, ready_queue))
  BY HeadTags, HeadsDiffer DEF Updated, SameOthers, FreeIs, ReadyIs
<1>7. TreeOk(n)
  <2>1. /\ \A q \in PCB : q # r => Members(n, p_child(q)) = Members(m, p_child(q))
        /\ Members(n, p_child(r)) = Members(m, p_child(r)) \ {x}
    BY HeadTags, HeadsDiffer DEF Updated, SameOthers
  <2>2. \A q \in PCB : n.parent[q] = IF q = x THEN NULL ELSE m.parent[q]
    BY <1>1, <1>3, <1>4 DEF Mem
  <2>3. Members(n, pcbFree_h) = Members(m, pcbFree_h) /\ Members(m, pcbFree_h) \subseteq PCB
    BY <1>1, <1>6, MembersAre DEF FreeIs
  <2>4. \A a, q \in PCB : q \in Members(m, p_child(a)) <=> m.parent[q] = a
    BY <1>1 DEF TreeOk
  <2>5. \A q \in Members(m, pcbFree_h) : m.parent[q] = NULL /\ Members(m, p_child(q)) = {}
    BY <1>1 DEF TreeOk
  <2>6. \A a, q \in PCB : q \in Members(n, p_child(a)) <=> n.parent[q] = a
    BY <1>3, <2>1, <2>2, <2>4, TablesAreArrays
  <2>7. \A q \in Members(n, pcbFree_h) : n.parent[q] = NULL /\ Members(n, p_child(q)) = {}
    BY <2>1, <2>2, <2>3, <2>5
  <2>. QED  BY <2>6, <2>7 DEF TreeOk
<1>8. OutIs(n, out)
  <2>1. Tag(hd) # "p_list" /\ Updated(m, n, hd, e, Members(m, hd) \ {x})
    BY <1>2
  <2>. HIDE DEF hd
  <2>. QED  BY <1>1, <1>2, <2>1, OutAfterOther
<1>9. WellFormed(n)
  BY DEF Updated
<1>. QED  BY <1>3, <1>5, <1>6, <1>7, <1>8, <1>9 DEF Ok

\* removeChild leaves the first child without parent.
LEMMA removeChildOk ==
  ASSUME NEW m, NEW out, Ok(m, out), NEW p \in PCB, Members(m, p_child(p)) # {},
         NEW x, x = First(m, p_child(p)), NEW n, n = removeChild(m, p)
  PROVE  /\ x \in PCB /\ m.parent[x] = p /\ ParentBecomes(m, n, x, NULL)
         /\ Ok(n, out) /\ FreeIs(n, Members(m, pcbFree_h))
         /\ ReadyIs(n, Entries(m, ready_queue)) /\ SameWaiters(m, n)
<1>1. WellFormed(m)
  BY DEF Ok
<1>2. /\ x \in PCB /\ x \in Members(m, p_child(p))
      /\ Updated(m, n, p_child(p), RemoveFirst(Entries(m, p_child(p)), x), Members(m, p_child(p)) \ {x})
      /\ ParentBecomes(m, n, x, NULL)
  BY <1>1, removeChild_TakesFirst
<1>3. /\ x \in PCB /\ m.parent[x] = p /\ Ok(n, out) /\ FreeIs(n, Members(m, pcbFree_h))
      /\ ReadyIs(n, Entries(m, ready_queue)) /\ SameWaiters(m, n)
  BY <1>2, OrphanOk
<1>. QED  BY <1>2, <1>3

\* outChild leaves a process without parent.
LEMMA outChildOk ==
  ASSUME NEW m, NEW out, Ok(m, out), NEW p \in PCB, NEW n, n = outChild(m, p)
  PROVE  /\ m.parent[p] = NULL => n = m
         /\ ParentBecomes(m, n, p, NULL) /\ Ok(n, out) /\ FreeIs(n, Members(m, pcbFree_h))
         /\ ReadyIs(n, Entries(m, ready_queue)) /\ SameWaiters(m, n)
<1>1. WellFormed(m) /\ TreeOk(m) /\ m \in Mem
  BY MemoryOf DEF Ok
<1>2. CASE m.parent[p] = NULL
  <2>1. n = m
    BY <1>2 DEF outChild
  <2>2. ParentBecomes(m, m, p, NULL)
    BY <1>1, <1>2 DEF ParentBecomes, Mem
  <2>. QED  BY <2>1, <2>2 DEF FreeIs, ReadyIs, SameWaiters
<1>3. CASE m.parent[p] # NULL
  <2>. DEFINE r == m.parent[p]
  <2>1. r \in PCB /\ p \in Members(m, p_child(r)) /\ r # NULL
    BY <1>1, <1>3 DEF Mem, TreeOk
  <2>. HIDE DEF r
  <2>2. /\ ParentBecomes(m, n, p, NULL)
        /\ Updated(m, n, p_child(r), RemoveFirst(Entries(m, p_child(r)), p), Members(m, p_child(r)) \ {p})
    BY <1>1, <2>1, outChild_Orphans DEF r
  <2>3. Ok(n, out) /\ FreeIs(n, Members(m, pcbFree_h)) /\ ReadyIs(n, Entries(m, ready_queue)) /\ SameWaiters(m, n)
    BY <2>1, <2>2, OrphanOk
  <2>. QED  BY <1>3, <2>2, <2>3
<1>. QED  BY <1>2, <1>3

\* A queue from which more goes.
LEMMA WithoutMore ==
  ASSUME NEW q, NEW S, NEW r, Table!Without(r, q, S), IsInjective(r), NEW p
  PROVE  Table!Without(RemoveFirst(r, p), q, S \cup {p})
<1>. DEFINE t == RemoveFirst(r, p)
<1>1. /\ r \in Seq(PCB) /\ {r[i] : i \in DOMAIN r} = {q[i] : i \in DOMAIN q} \ S
      /\ \A i, j \in DOMAIN r : i < j => \E a, b \in DOMAIN q : a < b /\ q[a] = r[i] /\ q[b] = r[j]
  BY DEF Table!Without
<1>2. Len(r) \in Nat /\ DOMAIN r = 1 .. Len(r) /\ Range(r) = {r[i] : i \in DOMAIN r}
  BY <1>1, LenProperties, RangeEquality
<1>3. t \in Seq(PCB) /\ Range(t) = Range(r) \ {p} /\ IsInjective(t)
  BY <1>1, RemoveFromQueue
<1>4. CASE p \in Range(r)
  <2>1. PICK n \in 1 .. Len(r) : r[n] = p
    BY <1>2, <1>4
  <2>2. \A i \in 1 .. Len(r) : r[i] = r[n] => i = n
    BY <1>2 DEF IsInjective
  <2>3. /\ Len(t) = Len(r) - 1
        /\ \A i \in 1 .. Len(r) - 1 : t[i] = (IF i < n THEN r[i] ELSE r[i + 1])
    BY <1>1, <2>1, <2>2, RemoveAtPlace
  <2>. HIDE DEF t
  <2>4. DOMAIN t = 1 .. Len(r) - 1 /\ Range(t) = {t[i] : i \in DOMAIN t}
    BY <1>2, <1>3, <2>3, LenProperties, RangeEquality
  <2>5. ASSUME NEW i \in DOMAIN t, NEW j \in DOMAIN t, i < j
        PROVE  \E a, b \in DOMAIN q : a < b /\ q[a] = t[i] /\ q[b] = t[j]
    <3>1. PICK i1 \in 1 .. Len(r), j1 \in 1 .. Len(r) : i1 < j1 /\ t[i] = r[i1] /\ t[j] = r[j1]
      <4>. DEFINE u == IF i < n THEN i ELSE i + 1
                  w == IF j < n THEN j ELSE j + 1
      <4>1. i \in 1 .. Len(r) - 1 /\ j \in 1 .. Len(r) - 1
        BY <2>4
      <4>2. u \in 1 .. Len(r) /\ w \in 1 .. Len(r) /\ u < w
        BY <1>2, <2>1, <2>5, <4>1
      <4>3. t[i] = r[u] /\ t[j] = r[w]
        BY <2>3, <4>1
      <4>. HIDE DEF u, w
      <4>. QED  BY <4>2, <4>3
    <3>. QED  BY <1>1, <1>2, <3>1
  <2>6. {t[i] : i \in DOMAIN t} = {q[i] : i \in DOMAIN q} \ (S \cup {p})
    BY <1>1, <1>2, <1>3, <2>4
  <2>7. Table!Without(t, q, S \cup {p})
    BY <1>3, <2>5, <2>6 DEF Table!Without
  <2>. QED  BY <2>7 DEF t
<1>5. CASE p \notin Range(r)
  <2>1. t = r
    BY <1>1, <1>5, RemoveNothing
  <2>2. {r[i] : i \in DOMAIN r} = {q[i] : i \in DOMAIN q} \ (S \cup {p})
    BY <1>1, <1>2, <1>5
  <2>3. Table!Without(r, q, S \cup {p})
    BY <1>1, <2>2 DEF Table!Without
  <2>. QED  BY <2>1, <2>3
<1>. QED  BY <1>4, <1>5

\* A queue from which nothing goes is the same.
LEMMA WithoutNothing ==
  ASSUME NEW q \in Seq(PCB)
  PROVE  Table!Without(q, q, {})
BY DEF Table!Without

\* The queue of an address is one of processes, each once.
LEMMA QueueIsQueue ==
  ASSUME NEW m, WellFormed(m), AslOk(m)
  PROVE  /\ Entries(m, ready_queue) \in Seq(PCB) /\ IsInjective(Entries(m, ready_queue))
         /\ \A k : Queue(m, k) \in Seq(PCB) /\ IsInjective(Queue(m, k))
<1>1. ASSUME NEW hd \in Heads, Tag(hd) = "p_list"
      PROVE  Entries(m, hd) \in Seq(PCB) /\ IsInjective(Entries(m, hd))
  <2>1. Owner(hd) = PCB
    BY <1>1 DEF Owner
  <2>. QED  BY <2>1, MembersOfList
<1>2. ASSUME NEW k PROVE Queue(m, k) \in Seq(PCB) /\ IsInjective(Queue(m, k))
  <2>1. CASE \E t \in Members(m, semd_h) : m.key[t] = k
    <3>1. PICK t \in Members(m, semd_h) : m.key[t] = k
      BY <2>1
    <3>. DEFINE o == s_procq(t)
    <3>2. Queue(m, k) = Entries(m, o) /\ o \in Heads /\ Tag(o) = "p_list"
      BY <3>1, QueueOf, MembersAre, HeadTags
    <3>. HIDE DEF o
    <3>. QED  BY <1>1, <3>2
  <2>2. CASE \A t \in Members(m, semd_h) : m.key[t] # k
    <3>1. Queue(m, k) = <<>>
      BY <2>2, QueueOf
    <3>2. <<>> \in Seq(PCB) /\ IsInjective(<<>>)
      BY EmptySeq DEF IsInjective
    <3>. QED  BY <3>1, <3>2
  <2>. QED  BY <2>1, <2>2
<1>. QED  BY <1>1, <1>2, HeadTags

\* A process with its descendants.
Family(m, r) ==
  {p \in PCB : \A S \in SUBSET PCB :
     (r \in S /\ \A q \in PCB : m.parent[q] \in S => q \in S) => p \in S}

\* A family has its root, the children of its members, and nothing more.
LEMMA FamilyIsLeast ==
  ASSUME NEW m, NEW r \in PCB
  PROVE  /\ r \in Family(m, r)
         /\ \A q \in PCB : m.parent[q] \in Family(m, r) => q \in Family(m, r)
         /\ \A S \in SUBSET PCB :
              (r \in S /\ \A q \in PCB : m.parent[q] \in S => q \in S) => Family(m, r) \subseteq S
BY DEF Family

\* Where killTree(root) is, when it began with m0: what it has freed is part of
\* the family, its calls are the rest that it has taken from their parents.
Freed(m0, m) == Members(m, pcbFree_h) \ Members(m0, pcbFree_h)

QueuesLose(m0, m, S) ==
  /\ Table!Without(Entries(m, ready_queue), Entries(m0, ready_queue), S)
  /\ \A k \in Key : Table!Without(Queue(m, k), Queue(m0, k), S)

KillInv(m0, out, root, m, calls) ==
  /\ Ok(m, out \ Freed(m0, m))
  /\ calls \in Seq(PCB) /\ IsInjective(calls)
  /\ \A c \in Range(calls) : m.parent[c] = NULL /\ c \notin Members(m, pcbFree_h)
  /\ Members(m0, pcbFree_h) \subseteq Members(m, pcbFree_h)
  /\ root \in Freed(m0, m) \cup Range(calls)
  /\ Freed(m0, m) \cup Range(calls) \subseteq Family(m0, root)
  /\ \A q \in PCB : m.parent[q] = IF q \in Freed(m0, m) \cup Range(calls) THEN NULL ELSE m0.parent[q]
  /\ QueuesLose(m0, m, Freed(m0, m))

\* A call of killTree whose process has no child left frees it and returns.
LEMMA ReturnOfKill ==
  ASSUME NEW m0, NEW out, NEW root \in PCB, NEW m, NEW calls, KillInv(m0, out, root, m, calls),
         calls # <<>>, NEW p, p = Head(calls), Members(m, p_child(p)) = {},
         NEW n, n = removePcb(m, p)
  PROVE  /\ KillInv(m0, out, root, n, Tail(calls))
         /\ p \in PCB /\ p \notin Members(m, pcbFree_h)
         /\ FreeIs(n, Members(m, pcbFree_h) \cup {p}) /\ SameParents(m, n)
<1>. DEFINE F == Freed(m0, m)
<1>1. /\ Ok(m, out \ F) /\ calls \in Seq(PCB) /\ IsInjective(calls)
      /\ \A c \in Range(calls) : m.parent[c] = NULL /\ c \notin Members(m, pcbFree_h)
      /\ Members(m0, pcbFree_h) \subseteq Members(m, pcbFree_h)
      /\ root \in F \cup Range(calls) /\ F \cup Range(calls) \subseteq Family(m0, root)
      /\ \A q \in PCB : m.parent[q] = IF q \in F \cup Range(calls) THEN NULL ELSE m0.parent[q]
      /\ QueuesLose(m0, m, F)
  BY DEF KillInv
<1>2. p \in Range(calls) /\ p \in PCB
  <2>1. Len(calls) \in Nat \ {0} /\ Head(calls) = calls[1] /\ DOMAIN calls = 1 .. Len(calls)
    BY <1>1, EmptySeq, LenProperties
  <2>. QED  BY <1>1, <2>1, ElementOfSeq DEF Range
<1>3. /\ Tail(calls) \in Seq(PCB) /\ IsInjective(Tail(calls)) /\ Range(Tail(calls)) = Range(calls) \ {p}
  BY <1>1, TailOfQueue
<1>4. p \notin Members(m, pcbFree_h) /\ m.parent[p] = NULL
  BY <1>1, <1>2
<1>5. /\ Ok(n, (out \ F) \ {p}) /\ FreeIs(n, Members(m, pcbFree_h) \cup {p})
      /\ SameParents(m, n) /\ Dropped(m, n, p)
  BY <1>1, <1>2, <1>4, RemoveOk
<1>. HIDE DEF F
<1>6. Members(n, pcbFree_h) = Members(m, pcbFree_h) \cup {p}
  BY <1>5 DEF FreeIs
<1>7. Freed(m0, n) = F \cup {p}
  BY <1>1, <1>4, <1>6 DEF Freed, F
<1>8. Ok(n, out \ Freed(m0, n))
  <2>1. (out \ F) \ {p} = out \ (F \cup {p})
    OBVIOUS
  <2>. QED  BY <1>5, <1>7, <2>1
<1>9. n.parent = m.parent
  BY <1>5 DEF SameParents
<1>10. Freed(m0, n) \cup Range(Tail(calls)) = F \cup Range(calls)
  BY <1>2, <1>3, <1>7
<1>11. QueuesLose(m0, n, Freed(m0, n))
  <2>1. WellFormed(m) /\ AslOk(m)
    BY <1>1 DEF Ok
  <2>2. Table!Without(Entries(n, ready_queue), Entries(m0, ready_queue), F \cup {p})
    <3>. DEFINE r == Entries(m, ready_queue)
                q == Entries(m0, ready_queue)
    <3>1. Table!Without(r, q, F) /\ IsInjective(r)
      BY <1>1, <2>1, QueueIsQueue DEF QueuesLose
    <3>2. Entries(n, ready_queue) = RemoveFirst(r, p)
      BY <1>5 DEF Dropped
    <3>. HIDE DEF r, q
    <3>3. Table!Without(RemoveFirst(r, p), q, F \cup {p})
      BY <3>1, WithoutMore
    <3>. QED  BY <3>2, <3>3 DEF q
  <2>3. ASSUME NEW k \in Key PROVE Table!Without(Queue(n, k), Queue(m0, k), F \cup {p})
    <3>. DEFINE r == Queue(m, k)
                q == Queue(m0, k)
    <3>1. Table!Without(r, q, F) /\ IsInjective(r)
      BY <1>1, <2>1, QueueIsQueue DEF QueuesLose
    <3>2. Queue(n, k) = RemoveFirst(r, p)
      BY <1>5 DEF Dropped
    <3>. HIDE DEF r, q
    <3>3. Table!Without(RemoveFirst(r, p), q, F \cup {p})
      BY <3>1, WithoutMore
    <3>. QED  BY <3>2, <3>3 DEF q
  <2>. QED  BY <1>7, <2>2, <2>3 DEF QueuesLose
<1>12. \A c \in Range(Tail(calls)) : n.parent[c] = NULL /\ c \notin Members(n, pcbFree_h)
  BY <1>1, <1>3, <1>6, <1>9
<1>13. Members(m0, pcbFree_h) \subseteq Members(n, pcbFree_h)
  BY <1>1, <1>6
<1>14. KillInv(m0, out, root, n, Tail(calls))
  BY <1>1, <1>3, <1>8, <1>9, <1>10, <1>11, <1>12, <1>13 DEF KillInv
<1>. QED  BY <1>2, <1>4, <1>5, <1>14

\* A call of killTree whose process has a child calls itself on the first.
LEMMA CallOfKill ==
  ASSUME NEW m0, NEW out, NEW root \in PCB, NEW m, NEW calls, KillInv(m0, out, root, m, calls),
         calls # <<>>, NEW p, p = Head(calls), Members(m, p_child(p)) # {},
         NEW x, x = First(m, p_child(p)), NEW n, n = outChild(removeChild(m, p), x)
  PROVE  /\ KillInv(m0, out, root, n, <<x>> \o calls)
         /\ x \in PCB /\ m.parent[x] # NULL
         /\ FreeIs(n, Members(m, pcbFree_h)) /\ ParentBecomes(m, n, x, NULL)
<1>. DEFINE F == Freed(m0, m)
<1>1. /\ Ok(m, out \ F) /\ calls \in Seq(PCB) /\ IsInjective(calls)
      /\ \A c \in Range(calls) : m.parent[c] = NULL /\ c \notin Members(m, pcbFree_h)
      /\ Members(m0, pcbFree_h) \subseteq Members(m, pcbFree_h)
      /\ root \in F \cup Range(calls) /\ F \cup Range(calls) \subseteq Family(m0, root)
      /\ \A q \in PCB : m.parent[q] = IF q \in F \cup Range(calls) THEN NULL ELSE m0.parent[q]
      /\ QueuesLose(m0, m, F)
  BY DEF KillInv
<1>2. p \in Range(calls) /\ p \in PCB
  <2>1. Len(calls) \in Nat \ {0} /\ Head(calls) = calls[1] /\ DOMAIN calls = 1 .. Len(calls)
    BY <1>1, EmptySeq, LenProperties
  <2>. QED  BY <1>1, <2>1, ElementOfSeq DEF Range
<1>. DEFINE d == removeChild(m, p)
<1>3. /\ x \in PCB /\ m.parent[x] = p /\ ParentBecomes(m, d, x, NULL)
      /\ Ok(d, out \ F) /\ FreeIs(d, Members(m, pcbFree_h))
      /\ ReadyIs(d, Entries(m, ready_queue)) /\ SameWaiters(m, d)
  BY <1>1, <1>2, removeChildOk
<1>. HIDE DEF d, F
<1>4. TreeOk(m) /\ m \in Mem /\ p # NULL
  BY <1>1, <1>2, MemoryOf, TablesAreArrays DEF Ok
<1>5. d.parent = [m.parent EXCEPT ![x] = NULL]
  BY <1>3 DEF ParentBecomes
<1>6. n = d
  <2>1. d.parent[x] = NULL
    BY <1>3, <1>4, <1>5 DEF Mem
  <2>. QED  BY <2>1 DEF outChild, d
<1>7. Members(n, pcbFree_h) = Members(m, pcbFree_h)
  BY <1>3, <1>6 DEF FreeIs
<1>8. Freed(m0, n) = F
  BY <1>7 DEF Freed, F
<1>9. x \notin Members(m, pcbFree_h) /\ x \notin F \cup Range(calls) /\ m0.parent[x] = p
  <2>1. x \notin Members(m, pcbFree_h)
    BY <1>3, <1>4 DEF TreeOk
  <2>2. x \notin F \cup Range(calls)
    BY <1>1, <1>3, <1>4
  <2>. QED  BY <1>1, <1>3, <2>1, <2>2
<1>10. x \in Family(m0, root)
  BY <1>1, <1>2, <1>3, <1>9, FamilyIsLeast
<1>. DEFINE more == <<x>> \o calls
<1>11. more \in Seq(PCB) /\ IsInjective(more) /\ Range(more) = {x} \cup Range(calls)
  <2>. DEFINE one == <<x>>
  <2>1. one \in Seq(PCB) /\ IsInjective(one) /\ Range(one) = {x}
    BY <1>3 DEF IsInjective, Range
  <2>2. more = one \o calls
    OBVIOUS
  <2>. HIDE DEF one, more
  <2>3. Range(one) \cap Range(calls) = {}
    BY <1>9, <2>1
  <2>4. /\ one \o calls \in Seq(PCB) /\ IsInjective(one \o calls)
        /\ Range(one \o calls) = Range(one) \cup Range(calls)
    BY <1>1, <2>1, <2>3, ConcatOfQueues
  <2>. QED  BY <2>1, <2>2, <2>4
<1>. HIDE DEF more
<1>12. \A q \in PCB : n.parent[q] = IF q = x THEN NULL ELSE m.parent[q]
  BY <1>3, <1>4, <1>5, <1>6 DEF Mem
<1>13. \A c \in Range(more) : n.parent[c] = NULL /\ c \notin Members(n, pcbFree_h)
  <2>1. \A c \in Range(calls) : c \in PCB
    BY <1>1, RangeEquality, ElementOfSeq
  <2>. QED  BY <1>1, <1>3, <1>7, <1>9, <1>11, <1>12, <2>1
<1>14. \A q \in PCB : n.parent[q] = IF q \in Freed(m0, n) \cup Range(more) THEN NULL ELSE m0.parent[q]
  BY <1>1, <1>8, <1>11, <1>12
<1>15. QueuesLose(m0, n, Freed(m0, n))
  <2>1. Entries(n, ready_queue) = Entries(m, ready_queue) /\ \A k \in Key : Queue(n, k) = Queue(m, k)
    BY <1>3, <1>6 DEF ReadyIs, SameWaiters
  <2>. QED  BY <1>1, <1>8, <2>1 DEF QueuesLose
<1>16. KillInv(m0, out, root, n, more)
  BY <1>1, <1>3, <1>6, <1>7, <1>8, <1>10, <1>11, <1>13, <1>14, <1>15 DEF KillInv
<1>. QED  BY <1>3, <1>4, <1>6, <1>16 DEF more

\* What is left to do: processes to free and parents to leave.
Weight(m) ==
  Cardinality(PCB \ Members(m, pcbFree_h)) + Cardinality({q \in PCB : m.parent[q] # NULL})

\* What is left to do for killTree is a number.
LEMMA WeightIsNumber ==
  ASSUME NEW m
  PROVE  /\ Weight(m) \in Nat /\ IsFiniteSet(PCB \ Members(m, pcbFree_h))
         /\ Cardinality(PCB \ Members(m, pcbFree_h)) \in Nat
         /\ Cardinality(PCB \ Members(m, pcbFree_h)) <= Cardinality(PCB)
         /\ IsFiniteSet({q \in PCB : m.parent[q] # NULL})
         /\ Cardinality({q \in PCB : m.parent[q] # NULL}) \in Nat
         /\ Cardinality(PCB) \in Nat
<1>1. PCB \ Members(m, pcbFree_h) \in SUBSET PCB /\ {q \in PCB : m.parent[q] # NULL} \in SUBSET PCB
  OBVIOUS
<1>2. /\ IsFiniteSet(PCB \ Members(m, pcbFree_h)) /\ IsFiniteSet({q \in PCB : m.parent[q] # NULL})
      /\ Cardinality(PCB \ Members(m, pcbFree_h)) <= Cardinality(PCB)
  BY <1>1, TablesAreArrays, FS_Subset
<1>3. /\ Cardinality(PCB \ Members(m, pcbFree_h)) \in Nat
      /\ Cardinality({q \in PCB : m.parent[q] # NULL}) \in Nat /\ Cardinality(PCB) \in Nat
  BY <1>2, TablesAreArrays, FS_CardinalityType
<1>. QED  BY <1>2, <1>3 DEF Weight

\* Freeing a process leaves less to do.
LEMMA FreeingIsLess ==
  ASSUME NEW m, NEW p \in PCB, p \notin Members(m, pcbFree_h), NEW n,
         FreeIs(n, Members(m, pcbFree_h) \cup {p}), SameParents(m, n)
  PROVE  Weight(n) = Weight(m) - 1
<1>. DEFINE A == PCB \ Members(m, pcbFree_h)
            B == PCB \ Members(n, pcbFree_h)
<1>1. B = A \ {p} /\ p \in A
  BY DEF FreeIs
<1>2. IsFiniteSet(A)
  BY WeightIsNumber
<1>3. Cardinality(B) = Cardinality(A) - 1
  <2>. HIDE DEF A, B
  <2>. QED  BY <1>1, <1>2, FS_RemoveElement
<1>4. {q \in PCB : n.parent[q] # NULL} = {q \in PCB : m.parent[q] # NULL}
  BY DEF SameParents
<1>. DEFINE c == Cardinality({q \in PCB : m.parent[q] # NULL})
<1>5. Cardinality(A) \in Nat /\ c \in Nat
  BY WeightIsNumber
<1>6. Weight(m) = Cardinality(A) + c /\ Weight(n) = Cardinality(B) + c
  BY <1>4 DEF Weight
<1>. HIDE DEF A, B, c
<1>. QED  BY <1>3, <1>5, <1>6

\* Taking a process from its parent leaves less to do.
LEMMA LeavingIsLess ==
  ASSUME NEW m, m.parent \in [PCB -> PCB \cup {NULL}], NEW x \in PCB, m.parent[x] # NULL, NEW n,
         FreeIs(n, Members(m, pcbFree_h)), ParentBecomes(m, n, x, NULL)
  PROVE  Weight(n) = Weight(m) - 1
<1>. DEFINE A == {q \in PCB : m.parent[q] # NULL}
            B == {q \in PCB : n.parent[q] # NULL}
<1>1. B = A \ {x} /\ x \in A
  <2>1. \A q \in PCB : n.parent[q] = IF q = x THEN NULL ELSE m.parent[q]
    BY DEF ParentBecomes
  <2>. QED  BY <2>1
<1>2. IsFiniteSet(A)
  BY WeightIsNumber
<1>3. Cardinality(B) = Cardinality(A) - 1
  <2>. HIDE DEF A, B
  <2>. QED  BY <1>1, <1>2, FS_RemoveElement
<1>4. PCB \ Members(n, pcbFree_h) = PCB \ Members(m, pcbFree_h)
  BY DEF FreeIs
<1>5. Cardinality(A) \in Nat /\ Cardinality(PCB \ Members(m, pcbFree_h)) \in Nat
  BY WeightIsNumber
<1>. QED  BY <1>3, <1>4, <1>5 DEF Weight

\* The states in which killTree can be.
KillStates(m0, out, root) ==
  {s \in [mem : Mem, calls : Seq(PCB)] : KillInv(m0, out, root, s.mem, s.calls)}

\* A memory and the calls that satisfy the invariant are a state of killTree.
LEMMA StateOfKill ==
  ASSUME NEW m0, NEW out, NEW root, NEW m, NEW calls, KillInv(m0, out, root, m, calls),
         NEW s, s = [mem |-> m, calls |-> calls]
  PROVE  s \in KillStates(m0, out, root)
<1>1. m \in Mem /\ calls \in Seq(PCB)
  BY MemoryOf DEF KillInv, Ok
<1>2. s \in [mem : Mem, calls : Seq(PCB)] /\ s.mem = m /\ s.calls = calls
  BY <1>1
<1>. QED  BY <1>2 DEF KillStates

\* A turn of the loop keeps the invariant, and does one thing of what is left.
LEMMA StepOfKill ==
  ASSUME NEW m0, NEW out, NEW root \in PCB, NEW s \in KillStates(m0, out, root),
         NEW t, t = KillStep(s)
  PROVE  /\ t \in KillStates(m0, out, root)
         /\ s.calls = <<>> => t = s
         /\ s.calls # <<>> => Weight(t.mem) = Weight(s.mem) - 1
<1>. DEFINE m == s.mem
            calls == s.calls
            p == Head(calls)
<1>1. KillInv(m0, out, root, m, calls) /\ calls \in Seq(PCB)
  BY DEF KillStates
<1>2. CASE calls = <<>>
  BY <1>2 DEF KillStep
<1>3. CASE calls # <<>>
  <2>1. p \in PCB /\ WellFormed(m)
    <3>1. Len(calls) \in Nat \ {0} /\ Head(calls) = calls[1]
      BY <1>1, <1>3, EmptySeq, LenProperties
    <3>2. p \in PCB
      BY <1>1, <3>1, ElementOfSeq
    <3>. QED  BY <1>1, <3>2 DEF KillInv, Ok
  <2>2. Empty(m, p_child(p)) <=> Members(m, p_child(p)) = {}
    BY <2>1, HeadTags, FirstOfList
  <2>3. CASE Members(m, p_child(p)) = {}
    <3>. DEFINE n == removePcb(m, p)
    <3>0. Empty(s.mem, p_child(Head(s.calls))) /\ s.calls # <<>>
      BY <1>3, <2>2, <2>3
    <3>1. t = [mem |-> n, calls |-> Tail(calls)]
      BY <3>0 DEF KillStep
    <3>. DEFINE rest == Tail(calls)
    <3>. HIDE DEF m, calls, p, n
    <3>2. /\ KillInv(m0, out, root, n, Tail(calls)) /\ p \in PCB /\ p \notin Members(m, pcbFree_h)
          /\ FreeIs(n, Members(m, pcbFree_h) \cup {p}) /\ SameParents(m, n)
      BY <1>1, <1>3, <2>3, ReturnOfKill DEF n, p
    <3>3. Weight(n) = Weight(m) - 1
      BY <3>2, FreeingIsLess
    <3>. HIDE DEF rest
    <3>4. KillInv(m0, out, root, n, rest) /\ t = [mem |-> n, calls |-> rest]
      BY <3>1, <3>2 DEF rest
    <3>5. t \in KillStates(m0, out, root) /\ t.mem = n
      BY <3>4, StateOfKill
    <3>. QED  BY <1>3, <3>3, <3>5 DEF m, calls
  <2>4. CASE Members(m, p_child(p)) # {}
    <3>. DEFINE x == First(m, p_child(p))
                n == outChild(removeChild(m, p), x)
                more == <<x>> \o calls
    <3>0. ~Empty(s.mem, p_child(Head(s.calls))) /\ s.calls # <<>>
      BY <1>3, <2>2, <2>4
    <3>1. t = [mem |-> n, calls |-> more]
      BY <3>0 DEF KillStep, Call
    <3>. HIDE DEF m, calls, p, n, x
    <3>2. /\ KillInv(m0, out, root, n, <<x>> \o calls) /\ x \in PCB /\ m.parent[x] # NULL
          /\ FreeIs(n, Members(m, pcbFree_h)) /\ ParentBecomes(m, n, x, NULL)
      BY <1>1, <1>3, <2>4, CallOfKill DEF n, p, x
    <3>. HIDE DEF more
    <3>3. KillInv(m0, out, root, n, more)
      BY <3>2 DEF more
    <3>4. m.parent \in [PCB -> PCB \cup {NULL}]
      BY <2>1, MemoryOf DEF Mem
    <3>5. Weight(n) = Weight(m) - 1
      BY <3>2, <3>4, LeavingIsLess
    <3>6. t \in KillStates(m0, out, root) /\ t.mem = n
      BY <3>1, <3>3, StateOfKill
    <3>. QED  BY <1>3, <3>5, <3>6 DEF m, calls
  <2>. QED  BY <2>3, <2>4
<1>. QED  BY <1>2, <1>3

\* killTree begins in one of its states, with at most so much to do.
LEMMA StartOfKill ==
  ASSUME NEW m0, NEW out, Ok(m0, out), NEW root \in PCB, root \notin Members(m0, pcbFree_h),
         NEW s, s = Call(m0, root, <<>>)
  PROVE  s \in KillStates(m0, out, root) /\ Weight(s.mem) <= 2 * Cardinality(PCB) - 1
<1>. DEFINE m == outChild(m0, root)
            one == <<root>>
<1>1. s = [mem |-> m, calls |-> one]
  <2>1. <<root>> \o <<>> = one
    OBVIOUS
  <2>. QED  BY <2>1 DEF Call
<1>2. /\ ParentBecomes(m0, m, root, NULL) /\ Ok(m, out) /\ FreeIs(m, Members(m0, pcbFree_h))
      /\ ReadyIs(m, Entries(m0, ready_queue)) /\ SameWaiters(m0, m)
  BY outChildOk
<1>. HIDE DEF m
<1>3. WellFormed(m0) /\ AslOk(m0) /\ TreeOk(m0) /\ m0 \in Mem
  BY MemoryOf DEF Ok
<1>4. one \in Seq(PCB) /\ IsInjective(one) /\ Range(one) = {root}
  BY DEF IsInjective, Range
<1>. HIDE DEF one
<1>5. Freed(m0, m) = {} /\ Members(m, pcbFree_h) = Members(m0, pcbFree_h)
  BY <1>2 DEF Freed, FreeIs
<1>6. \A q \in PCB : m.parent[q] = IF q = root THEN NULL ELSE m0.parent[q]
  BY <1>2, <1>3 DEF ParentBecomes, Mem
<1>7. root \in Family(m0, root)
  BY FamilyIsLeast
<1>8. QueuesLose(m0, m, {})
  <2>1. Entries(m, ready_queue) = Entries(m0, ready_queue) /\ \A k \in Key : Queue(m, k) = Queue(m0, k)
    BY <1>2 DEF ReadyIs, SameWaiters
  <2>2. Entries(m0, ready_queue) \in Seq(PCB) /\ \A k \in Key : Queue(m0, k) \in Seq(PCB)
    BY <1>3, QueueIsQueue
  <2>. QED  BY <2>1, <2>2, WithoutNothing DEF QueuesLose
<1>9. Ok(m, out \ {})
  <2>1. Ok(m, out)
    BY <1>2
  <2>2. \A p : p \in out \ {} <=> p \in out
    OBVIOUS
  <2>. QED  BY <2>1, <2>2 DEF Ok, OutIs
<1>10. KillInv(m0, out, root, m, one)
  BY <1>4, <1>5, <1>6, <1>7, <1>8, <1>9 DEF KillInv
<1>11. s \in KillStates(m0, out, root) /\ s.mem = m
  BY <1>1, <1>10, StateOfKill
<1>12. Weight(m) <= 2 * Cardinality(PCB) - 1
  <2>. DEFINE A == {q \in PCB : m.parent[q] # NULL}
              B == PCB \ {root}
              f == Cardinality(PCB \ Members(m, pcbFree_h))
              c == Cardinality(PCB)
  <2>1. f \in Nat /\ f <= c /\ c \in Nat /\ Cardinality(A) \in Nat
    BY WeightIsNumber
  <2>2. A \in SUBSET B
    BY <1>6
  <2>3. IsFiniteSet(B) /\ Cardinality(B) = c - 1
    BY TablesAreArrays, FS_RemoveElement
  <2>4. Weight(m) = f + Cardinality(A)
    BY DEF Weight
  <2>. HIDE DEF A, B, f, c
  <2>5. Cardinality(A) <= Cardinality(B)
    BY <2>2, <2>3, FS_Subset
  <2>6. Weight(m) <= 2 * c - 1
    BY <2>1, <2>3, <2>4, <2>5
  <2>. QED  BY <2>6 DEF c
<1>. QED  BY <1>11, <1>12

\* killTree frees the family of the root, and has done it when its loop stops.
LEMMA killTreeOk ==
  ASSUME NEW m0, NEW out, Ok(m0, out), NEW root \in PCB, root \notin Members(m0, pcbFree_h),
         NEW n, n = killTree(m0, root), NEW F, F = Family(m0, root)
  PROVE  /\ Ok(n, out \ F) /\ F \cap Members(m0, pcbFree_h) = {}
         /\ FreeIs(n, Members(m0, pcbFree_h) \cup F) /\ QueuesLose(m0, n, F)
         /\ \A q \in PCB : n.parent[q] = IF q \in F THEN NULL ELSE m0.parent[q]
<1>. DEFINE C == KillStates(m0, out, root)
            s0 == Call(m0, root, <<>>)
            next == [s \in C |-> KillStep(s)]
            N == 2 * Cardinality(PCB)
            Equation(f) == f = [i \in Nat |-> IF i = 0 THEN s0 ELSE KillStep(f[i - 1])]
            run == CHOOSE f : Equation(f)
<1>1. s0 \in C /\ Weight(s0.mem) <= N - 1
  BY StartOfKill
<1>2. next \in [C -> C]
  BY StepOfKill
<1>3. n = run[N].mem
  BY DEF killTree
<1>4. Cardinality(PCB) \in Nat /\ N \in Nat
  <2>1. Cardinality(PCB) \in Nat
    BY TablesAreArrays, FS_CardinalityType
  <2>. QED  BY <2>1
<1>5. Equation(run)
  <2>0. Iterates(C, next, s0) # {}
    <3>. HIDE DEF C, s0, next
    <3>. QED  BY <1>1, <1>2, IteratesExist
  <2>1. PICK w \in [Nat -> C] : w[0] = s0 /\ \A i \in Nat \ {0} : w[i] = next[w[i - 1]]
    <3>. HIDE DEF C, s0, next
    <3>. QED  BY <2>0 DEF Iterates
  <2>2. \A i \in Nat \ {0} : w[i] = KillStep(w[i - 1])
    <3>1. ASSUME NEW i \in Nat \ {0} PROVE w[i] = KillStep(w[i - 1])
      <4>1. i - 1 \in Nat
        OBVIOUS
      <4>2. w[i - 1] \in C
        BY <2>1, <4>1
      <4>. QED  BY <2>1, <4>2
    <3>. QED  BY <3>1
  <2>3. Equation(w)
    <3>. HIDE DEF C, s0, next
    <3>. QED  BY <2>1, <2>2
  <2>. HIDE DEF Equation
  <2>. QED  BY <2>3
<1>6. run[0] = s0 /\ \A i \in Nat \ {0} : run[i] = KillStep(run[i - 1])
  <2>. HIDE DEF run, s0
  <2>. QED  BY <1>5
<1>. HIDE DEF C, s0, next, Equation, run, N
<1>. DEFINE Good(i) == /\ run[i] \in C
                       /\ run[i].calls = <<>> \/ Weight(run[i].mem) + i <= N - 1
<1>7. ASSUME NEW n0 \in Nat, ~Good(n0) PROVE FALSE
  <2>. DEFINE Bad == {i \in Nat : ~Good(i)}
  <2>1. PICK i \in Bad : \A j \in Bad : i <= j
    <3>. HIDE DEF Good
    <3>. QED  BY <1>7, LeastNumber
  <2>2. CASE i = 0
    <3>1. Good(0)
      <4>1. Weight(s0.mem) \in Nat
        BY WeightIsNumber
      <4>. QED  BY <1>1, <1>4, <1>6, <4>1
    <3>. QED  BY <2>1, <2>2, <3>1
  <2>3. CASE i # 0
    <3>1. i \in Nat \ {0} /\ i - 1 \in Nat /\ ~(i <= i - 1)
      BY <2>1, <2>3
    <3>2. Good(i - 1)
      BY <2>1, <3>1
    <3>. DEFINE s == run[i - 1]
                t == run[i]
    <3>3. s \in C /\ t = KillStep(s) /\ (s.calls = <<>> \/ Weight(s.mem) + (i - 1) <= N - 1)
      BY <1>6, <3>1, <3>2
    <3>. HIDE DEF s, t
    <3>4. t \in C /\ (s.calls = <<>> => t = s) /\ (s.calls # <<>> => Weight(t.mem) = Weight(s.mem) - 1)
      BY <3>3, StepOfKill DEF C
    <3>5. Weight(s.mem) \in Nat /\ Weight(t.mem) \in Nat
      BY WeightIsNumber
    <3>6. t.calls = <<>> \/ Weight(t.mem) + i <= N - 1
      BY <1>4, <3>1, <3>3, <3>4, <3>5
    <3>7. Good(i)
      BY <3>4, <3>6 DEF t
    <3>. QED  BY <2>1, <3>7
  <2>. QED  BY <2>2, <2>3
<1>8. run[N] \in C /\ (run[N].calls = <<>> \/ Weight(run[N].mem) + N <= N - 1)
  BY <1>4, <1>7
<1>9. run[N].calls = <<>>
  <2>1. Weight(run[N].mem) \in Nat
    BY WeightIsNumber
  <2>. QED  BY <1>4, <1>8, <2>1
<1>10. KillInv(m0, out, root, n, <<>>)
  BY <1>3, <1>8, <1>9 DEF C, KillStates
<1>. DEFINE D == Freed(m0, n)
<1>11. Range(<<>>) = {}
  BY DEF Range
<1>12. /\ Ok(n, out \ D) /\ Members(m0, pcbFree_h) \subseteq Members(n, pcbFree_h)
       /\ root \in D /\ D \subseteq F /\ QueuesLose(m0, n, D)
       /\ \A q \in PCB : n.parent[q] = IF q \in D THEN NULL ELSE m0.parent[q]
  BY <1>10, <1>11 DEF KillInv
<1>13. F \subseteq D
  <2>1. TreeOk(n) /\ D \in SUBSET PCB /\ \A r \in D : r \in Members(n, pcbFree_h)
    <3>1. Members(n, pcbFree_h) \subseteq PCB
      BY <1>12, MembersAre DEF Ok
    <3>. QED  BY <1>12, <3>1 DEF Ok, Freed
  <2>2. ASSUME NEW q \in PCB, m0.parent[q] \in D, q \notin D PROVE FALSE
    <3>. DEFINE r == m0.parent[q]
    <3>1. n.parent[q] = r /\ r \in PCB /\ Members(n, p_child(r)) = {}
      BY <1>12, <2>1, <2>2 DEF TreeOk
    <3>. QED  BY <2>1, <3>1 DEF TreeOk
  <2>. HIDE DEF D
  <2>. QED  BY <1>12, <2>1, <2>2, FamilyIsLeast
<1>14. D = F
  BY <1>12, <1>13
<1>15. F \cap Members(m0, pcbFree_h) = {} /\ FreeIs(n, Members(m0, pcbFree_h) \cup F)
  BY <1>12, <1>14 DEF Freed, FreeIs
<1>. HIDE DEF D
<1>. QED  BY <1>12, <1>14, <1>15

-----------------------------------------------------------------------------
(* initPcbs and initASL *)

\* SetToSeq lists the elements of a finite set, each once.
LEMMA SequenceOfSet ==
  ASSUME NEW S, IsFiniteSet(S), NEW q, q = SetToSeq(S), NEW N, N = Cardinality(S)
  PROVE  /\ N \in Nat /\ q \in [1 .. N -> S]
         /\ \A i, j \in 1 .. N : q[i] = q[j] => i = j
         /\ \A x \in S : \E i \in 1 .. N : q[i] = x
<1>1. N \in Nat /\ ExistsBijection(1 .. N, S)
  BY FS_CardinalityType
<1>2. PICK f : f \in Bijection(1 .. N, S)
  BY <1>1 DEF ExistsBijection
<1>3. f \in [1 .. N -> S] /\ IsInjective(f)
  BY <1>2 DEF Bijection, Injection, IsInjective
<1>4. q \in [1 .. N -> S] /\ IsInjective(q)
  BY <1>3 DEF SetToSeq
<1>5. q \in Injection(1 .. N, S)
  BY <1>4 DEF Injection, IsInjective
<1>6. Cardinality(1 .. N) = N
  <2>1. 1 \in Int /\ N \in Int /\ (1 > N => N = 0)
    BY <1>1
  <2>. QED  BY <2>1, FS_Interval
<1>7. q \in Surjection(1 .. N, S)
  BY <1>5, <1>6, FS_Injection
<1>. QED  BY <1>1, <1>4, <1>5, <1>7 DEF Injection, Surjection, IsInjective

\* Put leads from links between cells to links between cells.
LEMMA AddStays ==
  ASSUME NEW h \in Links(Cell), NEW c \in Cell, NEW hd \in Cell, NEW end
  PROVE  Put(h, c, hd, end) \in Links(Cell)
BY DEF Links, Put, list_add, list_add_tail, AddBetween

\* The state of that loop: the number of cells added, and the heap.
AddStep(s, q, N, hd, end) ==
  IF s.i < N THEN [i |-> s.i + 1, h |-> Put(s.h, q[s.i + 1], hd, end)] ELSE s
AddStates(N) == [i : 0 .. N, h : Links(Cell)]

\* A turn of that loop leads to a state of it.
LEMMA AddStepStays ==
  ASSUME NEW N \in Nat, NEW q \in [1 .. N -> Cell], NEW hd \in Cell, NEW s \in AddStates(N),
         NEW end
  PROVE  AddStep(s, q, N, hd, end) \in AddStates(N)
<1>1. s.i \in 0 .. N /\ s.h \in Links(Cell)
  BY DEF AddStates
<1>2. CASE s.i < N
  <2>1. s.i + 1 \in 1 .. N /\ s.i + 1 \in 0 .. N
    BY <1>1, <1>2
  <2>. DEFINE x == q[s.i + 1]
              l == Put(s.h, x, hd, end)
  <2>2. x \in Cell
    BY <2>1
  <2>3. l \in Links(Cell)
    <3>. HIDE DEF x
    <3>. QED  BY <1>1, <2>2, AddStays
  <2>4. AddStep(s, q, N, hd, end) = [i |-> s.i + 1, h |-> l]
    BY <1>2 DEF AddStep
  <2>. HIDE DEF l
  <2>. QED  BY <2>1, <2>3, <2>4 DEF AddStates
<1>. QED  BY <1>2 DEF AddStep

\* The heaps through which that loop goes.
AddHeaps(h, q, N, hd, end) ==
  {g \in [0 .. N -> Links(Cell)] :
     g[0] = h /\ \A i \in 1 .. N : g[i] = Put(g[i - 1], q[i], hd, end)}

\* The loop that adds the cells of a table, one after the other.
LEMMA AddAllSteps ==
  ASSUME NEW h \in Links(Cell), NEW cells \in SUBSET Cell, IsFiniteSet(cells), NEW hd \in Cell,
         NEW q, q = SetToSeq(cells), NEW N, N = Cardinality(cells), NEW end
  PROVE  \E g \in AddHeaps(h, q, N, hd, end) : AddAll(h, cells, hd, end) = g[N]
<1>1. N \in Nat /\ q \in [1 .. N -> cells]
  BY SequenceOfSet
<1>2. q \in [1 .. N -> Cell]
  BY <1>1
<1>. DEFINE C == AddStates(N)
            next == [s \in C |-> AddStep(s, q, N, hd, end)]
            start == [i |-> 0, h |-> h]
<1>3. start \in C
  BY <1>1 DEF AddStates
<1>4. next \in [C -> C]
  <2>1. \A s \in C : AddStep(s, q, N, hd, end) \in C
    BY <1>1, <1>2, AddStepStays
  <2>. HIDE DEF C
  <2>. QED  BY <2>1
<1>5. Iterates(C, next, start) # {}
  <2>. HIDE DEF C, next, start
  <2>. QED  BY <1>3, <1>4, IteratesExist
<1>6. PICK w \in [Nat -> C] : w[0] = start /\ \A i \in Nat \ {0} : w[i] = next[w[i - 1]]
  <2>. HIDE DEF C, next, start
  <2>. QED  BY <1>5 DEF Iterates
<1>7. ASSUME NEW i \in Nat \ {0}
      PROVE  w[i - 1] \in C /\ w[i] = AddStep(w[i - 1], q, N, hd, end)
  <2>1. i - 1 \in Nat
    OBVIOUS
  <2>2. w[i - 1] \in C
    <3>. HIDE DEF C, next
    <3>. QED  BY <1>6, <2>1
  <2>3. w[i] = next[w[i - 1]]
    BY <1>6
  <2>4. next[w[i - 1]] = AddStep(w[i - 1], q, N, hd, end)
    BY <2>2
  <2>. HIDE DEF C, next
  <2>. QED  BY <2>2, <2>3, <2>4
<1>8. \A n \in 0 .. N : w[n].i = n
  <2>. DEFINE Bad == {i \in 0 .. N : w[i].i # i}
  <2>. SUFFICES ASSUME Bad # {} PROVE FALSE
    OBVIOUS
  <2>1. PICK i \in Bad : \A j \in Bad : i <= j
    <3>1. Bad \in SUBSET Nat
      BY <1>1
    <3>. HIDE DEF Bad
    <3>. QED  BY <3>1, LeastNumber
  <2>2. i \in Nat \ {0} /\ i - 1 \in 0 .. N /\ ~(i <= i - 1) /\ i \in 0 .. N
    <3>. HIDE DEF C, next
    <3>. QED  BY <1>1, <1>6, <2>1
  <2>3. w[i - 1].i = i - 1 /\ i - 1 < N
    <3>. HIDE DEF C, next, start
    <3>. QED  BY <1>1, <2>1, <2>2
  <2>4. w[i].i = i
    <3>. HIDE DEF C, next, start, Bad
    <3>1. w[i] = [i |-> w[i - 1].i + 1, h |-> Put(w[i - 1].h, q[w[i - 1].i + 1], hd, end)]
      BY <1>7, <2>2, <2>3 DEF AddStep
    <3>. QED  BY <2>2, <2>3, <3>1
  <2>. QED  BY <2>1, <2>4
<1>. DEFINE g == [i \in 0 .. N |-> w[i].h]
<1>9. g \in [0 .. N -> Links(Cell)] /\ g[0] = h
  <2>1. \A i \in 0 .. N : w[i].h \in Links(Cell)
    BY <1>1, <1>6 DEF AddStates
  <2>2. w[0].h = h
    BY <1>6
  <2>. HIDE DEF C, next, start
  <2>. QED  BY <1>1, <2>1, <2>2
<1>. HIDE DEF C, next, start
<1>10. ASSUME NEW i \in 1 .. N PROVE g[i] = Put(g[i - 1], q[i], hd, end)
  <2>1. i \in Nat \ {0} /\ i - 1 \in 0 .. N /\ i - 1 < N /\ (i - 1) + 1 = i /\ i \in 0 .. N
    BY <1>1
  <2>2. w[i - 1].i = i - 1
    BY <1>8, <2>1
  <2>3. w[i] = [i |-> w[i - 1].i + 1, h |-> Put(w[i - 1].h, q[w[i - 1].i + 1], hd, end)]
    BY <1>7, <2>1, <2>2 DEF AddStep
  <2>4. w[i].h = Put(w[i - 1].h, q[i], hd, end)
    BY <2>1, <2>2, <2>3
  <2>. QED  BY <2>1, <2>4
<1>. DEFINE Equation(f) == f = [i \in 0 .. N |-> IF i = 0 THEN h ELSE Put(f[i - 1], q[i], hd, end)]
            added == CHOOSE f : Equation(f)
<1>11. AddAll(h, cells, hd, end) = added[N]
  BY DEF AddAll
<1>12. Equation(g)
  <2>1. g = [i \in 0 .. N |-> g[i]]
    OBVIOUS
  <2>. HIDE DEF g
  <2>2. \A i \in 0 .. N : g[i] = IF i = 0 THEN h ELSE Put(g[i - 1], q[i], hd, end)
    <3>1. \A i \in 0 .. N : i # 0 => i \in 1 .. N
      BY <1>1
    <3>. QED  BY <1>9, <1>10, <3>1
  <2>. QED  BY <2>1, <2>2
<1>13. Equation(added)
  <2>. HIDE DEF Equation, g
  <2>. QED  BY <1>12
<1>. HIDE DEF g, added
<1>14. added = [i \in 0 .. N |-> IF i = 0 THEN h ELSE Put(added[i - 1], q[i], hd, end)]
  BY <1>13
<1>15. ASSUME NEW n \in 0 .. N, added[n] # g[n] PROVE FALSE
  <2>. DEFINE Bad == {i \in 0 .. N : added[i] # g[i]}
  <2>1. PICK i \in Bad : \A j \in Bad : i <= j
    <3>1. Bad \in SUBSET Nat /\ Bad # {}
      BY <1>1, <1>15
    <3>. HIDE DEF Bad
    <3>. QED  BY <3>1, LeastNumber
  <2>2. i # 0
    BY <1>1, <1>9, <1>14, <2>1
  <2>3. i \in 1 .. N /\ i - 1 \in 0 .. N /\ ~(i <= i - 1)
    BY <1>1, <2>1, <2>2
  <2>4. added[i - 1] = g[i - 1]
    BY <2>1, <2>3
  <2>5. added[i] = Put(added[i - 1], q[i], hd, end)
    BY <1>14, <2>1, <2>2
  <2>. QED  BY <1>10, <2>1, <2>3, <2>4, <2>5
<1>16. added[N] = g[N]
  BY <1>1, <1>15
<1>17. g \in AddHeaps(h, q, N, hd, end)
  BY <1>9, <1>10 DEF AddHeaps
<1>. QED  BY <1>11, <1>16, <1>17

\* The list of hd gains the entries X, and the other lists stay.
Added(m0, n, hd, X) ==
  /\ WellFormed(n) /\ SameFields(m0, n)
  /\ \A o \in Heads \ {hd} : Members(n, o) = Members(m0, o)
  /\ Members(n, hd) = Members(m0, hd) \cup X

\* One more entry that was in no list.
LEMMA AddMore ==
  ASSUME NEW m0, NEW m, NEW hd \in Heads, NEW D, Added(m0, m, hd, D), NEW x \in Owner(hd), x \notin D,
         Loose(m0, Tag(hd), x), NEW n \in Mem, SameFields(m, n), NEW end,
         n.links = Put(m.links, <<Tag(hd), x>>, hd, end)
  PROVE  Added(m0, n, hd, D \cup {x})
<1>1. WellFormed(m) /\ Members(m, hd) = Members(m0, hd) \cup D
  BY DEF Added
<1>2. Loose(m, Tag(hd), x)
  <2>. SUFFICES ASSUME NEW o \in Heads, Tag(o) = Tag(hd), x \in Members(m, o) PROVE FALSE
    BY DEF Loose
  <2>1. x \notin Members(m0, o)
    BY DEF Loose
  <2>2. CASE o = hd
    BY <1>1, <2>1, <2>2
  <2>3. CASE o # hd
    BY <2>1, <2>3 DEF Added
  <2>. QED  BY <2>2, <2>3
<1>. DEFINE S == Members(m, hd) \cup {x}
<1>3. \E e : Updated(m, n, hd, e, S)
  <2>. DEFINE first == InsertAt(Entries(m, hd), 1, x)
              last  == Append(Entries(m, hd), x)
  <2>1. CASE n.links = list_add(m.links, <<Tag(hd), x>>, hd)
    <3>1. Updated(m, n, hd, first, S)
      BY <1>1, <1>2, <2>1, PutFirst
    <3>. QED  BY <3>1
  <2>2. CASE n.links = list_add_tail(m.links, <<Tag(hd), x>>, hd)
    <3>1. Updated(m, n, hd, last, S)
      BY <1>1, <1>2, <2>2, PutLast
    <3>. QED  BY <3>1
  <2>. QED  BY <2>1, <2>2 DEF Put
<1>. HIDE DEF S
<1>4. WellFormed(n) /\ Members(n, hd) = S /\ \A o \in Heads \ {hd} : Members(n, o) = Members(m, o)
  BY <1>3 DEF Updated, SameOthers
<1>5. S = Members(m0, hd) \cup (D \cup {x})
  BY <1>1 DEF S
<1>6. SameFields(m0, n)
  BY DEF SameFields, Added
<1>. QED  BY <1>4, <1>5, <1>6 DEF Added

\* The cells by which the entries of a set hang in a list.
CellsOf(hd, X) == {<<Tag(hd), x>> : x \in X}

\* Those cells are cells of the tables, and finitely many.
LEMMA CellsOfEntries ==
  ASSUME NEW hd \in Heads, NEW X, X \subseteq Owner(hd)
  PROVE  IsFiniteSet(CellsOf(hd, X)) /\ CellsOf(hd, X) \in SUBSET Cell /\ hd \in Cell
<1>1. \A x \in X : <<Tag(hd), x>> \in Cell
  BY ItemOfEntry, HeadsAndItems
<1>2. CellsOf(hd, X) \subseteq Cell
  BY <1>1 DEF CellsOf
<1>. QED  BY <1>2, CellIsFinite, FS_Subset, HeadsAndItems

\* AddAll puts into a list all the entries of a set.
LEMMA AddAllOk ==
  ASSUME NEW m0, WellFormed(m0), NEW hd \in Heads, NEW X, X \subseteq Owner(hd), IsFiniteSet(X),
         \A x \in X : Loose(m0, Tag(hd), x), NEW cells, cells = CellsOf(hd, X), NEW end,
         NEW n, n = [m0 EXCEPT !.links = AddAll(@, cells, hd, end)]
  PROVE  Added(m0, n, hd, X)
<1>. DEFINE tag == Tag(hd)
            N == Cardinality(cells)
            q == SetToSeq(cells)
<1>1. IsFiniteSet(cells) /\ cells \in SUBSET Cell /\ hd \in Cell
  BY CellsOfEntries
<1>2. m0 \in Mem /\ m0.links \in Links(Cell)
  BY MemoryOf
<1>. DEFINE h == m0.links
<1>. HIDE DEF h, q, N
<1>3. PICK g \in AddHeaps(h, q, N, hd, end) : AddAll(h, cells, hd, end) = g[N]
  <2>1. h \in Links(Cell)
    BY <1>2 DEF h
  <2>2. q = SetToSeq(cells) /\ N = Cardinality(cells)
    BY DEF q, N
  <2>. QED  BY <1>1, <2>1, <2>2, AddAllSteps
<1>4. /\ N \in Nat /\ q \in [1 .. N -> cells]
      /\ \A i, j \in 1 .. N : q[i] = q[j] => i = j
      /\ \A c \in cells : \E i \in 1 .. N : q[i] = c
  <2>1. q = SetToSeq(cells) /\ N = Cardinality(cells)
    BY DEF q, N
  <2>. QED  BY <1>1, <2>1, SequenceOfSet
<1>. USE DEF CellsOf, AddHeaps, h
<1>. DEFINE M(i) == [m0 EXCEPT !.links = g[i]]
            D(i) == {x \in X : \E j \in 1 .. i : q[j] = <<tag, x>>}
            Good(i) == Added(m0, M(i), hd, D(i))
<1>5. \A i \in 0 .. N : M(i) \in Mem /\ M(i).links = g[i] /\ SameFields(m0, M(i))
  <2>. SUFFICES ASSUME NEW i \in 0 .. N PROVE M(i) \in Mem /\ M(i).links = g[i] /\ SameFields(m0, M(i))
    OBVIOUS
  <2>. DEFINE l == g[i]
  <2>1. l \in Links(Cell)
    BY <1>3
  <2>. HIDE DEF l
  <2>2. M(i) = [m0 EXCEPT !.links = l]
    BY DEF l
  <2>. HIDE DEF M
  <2>3. M(i) \in Mem /\ M(i).links = l /\ SameFields(m0, M(i))
    BY <1>2, <2>1, <2>2, NewLinks
  <2>. QED  BY <2>3 DEF l
<1>6. Good(0)
  <2>1. D(0) = {}
    OBVIOUS
  <2>. DEFINE m1 == M(0)
  <2>2. m1 \in Mem /\ m1.links = m0.links /\ SameFields(m0, m1)
    BY <1>3, <1>4, <1>5
  <2>. HIDE DEF m1
  <2>3. WellFormed(m1) /\ \A o \in Heads : Members(m1, o) = Members(m0, o)
    BY <2>2, SameLinks
  <2>4. Added(m0, m1, hd, {})
    BY <2>2, <2>3 DEF Added
  <2>. QED  BY <2>1, <2>4 DEF m1
<1>7. ASSUME NEW i \in 1 .. N, Good(i - 1) PROVE Good(i)
  <2>1. i \in 0 .. N /\ i - 1 \in 0 .. N
    BY <1>4
  <2>2. PICK x \in X : q[i] = <<tag, x>>
    BY <1>4
  <2>. DEFINE m == M(i - 1)
              n1 == M(i)
              d == D(i - 1)
  <2>3. x \notin d
    <3>. SUFFICES ASSUME NEW j \in 1 .. (i - 1), q[j] = <<tag, x>> PROVE FALSE
      OBVIOUS
    <3>1. j \in 1 .. N /\ j # i
      BY <1>4
    <3>. QED  BY <1>4, <2>2, <3>1
  <2>4. n1 \in Mem /\ m.links = g[i - 1] /\ SameFields(m0, m) /\ SameFields(m0, n1) /\ n1.links = g[i]
    <3>. HIDE DEF M
    <3>. QED  BY <1>5, <2>1
  <2>5. n1.links = Put(m.links, <<tag, x>>, hd, end)
    <3>. HIDE DEF m, n1
    <3>. QED  BY <1>3, <2>2, <2>4
  <2>6. SameFields(m, n1)
    <3>. HIDE DEF m, n1
    <3>. QED  BY <2>4 DEF SameFields
  <2>7. Added(m0, m, hd, d)
    BY <1>7
  <2>8. D(i) = d \cup {x}
    <3>1. \A j \in 1 .. i : j \in 1 .. (i - 1) \/ j = i
      OBVIOUS
    <3>2. \A j \in 1 .. (i - 1) : j \in 1 .. i
      OBVIOUS
    <3>3. i \in 1 .. i
      OBVIOUS
    <3>4. D(i) \subseteq d \cup {x}
      <4>. SUFFICES ASSUME NEW y \in X, NEW j \in 1 .. i, q[j] = <<tag, y>> PROVE y \in d \cup {x}
        OBVIOUS
      <4>. QED  BY <2>2, <3>1
    <3>5. d \cup {x} \subseteq D(i)
      BY <2>2, <3>2, <3>3
    <3>. QED  BY <3>4, <3>5
  <2>. HIDE DEF m, n1, d, tag
  <2>9. Added(m0, n1, hd, d \cup {x})
    <3>1. x \in Owner(hd) /\ Loose(m0, Tag(hd), x)
      OBVIOUS
    <3>2. n1.links = Put(m.links, <<Tag(hd), x>>, hd, end)
      BY <2>5 DEF tag
    <3>. QED  BY <2>3, <2>4, <2>6, <2>7, <3>1, <3>2, AddMore
  <2>. HIDE DEF D
  <2>. QED  BY <2>8, <2>9 DEF n1
<1>8. Good(N)
  <2>. HIDE DEF Good
  <2>. SUFFICES ASSUME ~Good(N) PROVE FALSE
    OBVIOUS
  <2>. DEFINE Bad == {i \in 0 .. N : ~Good(i)}
  <2>1. Bad \in SUBSET Nat /\ Bad # {}
    BY <1>4
  <2>2. PICK i \in Bad : \A j \in Bad : i <= j
    <3>. HIDE DEF Bad
    <3>. QED  BY <2>1, LeastNumber
  <2>3. i \in 1 .. N /\ i - 1 \in 0 .. N /\ ~(i <= i - 1)
    BY <1>4, <1>6, <2>2
  <2>4. Good(i - 1)
    BY <2>2, <2>3
  <2>. QED  BY <1>7, <2>2, <2>3, <2>4
<1>9. D(N) = X
  <2>1. \A x \in X : <<tag, x>> \in cells
    OBVIOUS
  <2>2. \A x \in X : \E i \in 1 .. N : q[i] = <<tag, x>>
    BY <1>4, <2>1
  <2>. HIDE DEF tag, CellsOf
  <2>. QED  BY <2>2
<1>10. n = M(N)
  <2>1. n = [m0 EXCEPT !.links = AddAll(h, cells, hd, end)]
    OBVIOUS
  <2>. HIDE DEF h
  <2>. QED  BY <1>3, <2>1
<1>. HIDE DEF D, M
<1>. QED  BY <1>8, <1>9, <1>10

\* The memory in which no list holds anything.
Blank == [links  |-> [next |-> Alone, prev |-> Alone],
          parent |-> [p \in PCB |-> NULL],
          semAdd |-> [p \in PCB |-> NULL],
          key    |-> [s \in SEMD |-> NULL]]

\* In it every list is closed, and empty.
LEMMA BlankIsEmpty ==
  WellFormed(Blank) /\ \A hd \in Heads : Members(Blank, hd) = {}
<1>. DEFINE h == [next |-> Alone, prev |-> Alone]
<1>1. Blank \in Mem /\ Blank.links = h
  <2>1. Alone \in [Cell -> Cell]
    BY DEF Alone
  <2>2. h \in Links(Cell)
    BY <2>1 DEF Links
  <2>. HIDE DEF h
  <2>3. Blank = [links |-> h, parent |-> [p \in PCB |-> NULL], semAdd |-> [p \in PCB |-> NULL],
                 key |-> [s \in SEMD |-> NULL]]
    BY DEF Blank, h
  <2>4. NULL \in PCB \cup {NULL} /\ NULL \in Key \cup {NULL}
    OBVIOUS
  <2>. QED  BY <2>2, <2>3, <2>4 DEF Mem
<1>2. \A c \in Cell : h.next[c] = c /\ h.prev[c] = c
  BY DEF Alone
<1>3. DOMAIN h.next = Cell /\ h \in Links(Cell)
  BY DEF Alone, Links
<1>4. h \in HeapOn(Cell)
  BY <1>2, <1>3 DEF HeapOn, Linked
<1>. HIDE DEF h
<1>5. ASSUME NEW hd \in Heads PROVE IsList(h, hd, Cells(h, hd)) /\ Listed(h, hd) = {}
  <2>. DEFINE q == <<>>
  <2>1. hd \in Cell /\ h.next \in [Cell -> Cell]
    BY <1>3, HeadsAndItems DEF Links
  <2>2. q \in Seq(DOMAIN h.next \ {hd}) /\ Len(q) = 0 /\ Range(q) = {} /\ IsInjective(q)
    BY DEF Range, IsInjective
  <2>3. \A i \in 0 .. Len(q) : Place(hd, q, i) = hd /\ Place(hd, q, i + 1) = hd
    BY <2>2 DEF Place
  <2>. HIDE DEF q
  <2>4. IsList(h, hd, q)
    BY <1>2, <2>1, <2>2, <2>3 DEF IsList
  <2>5. Cells(h, hd) = q
    BY <2>1, <2>4, CellIsFinite, CellsOfList
  <2>. QED  BY <2>2, <2>4, <2>5 DEF Listed
<1>6. \A c \in Items : IsAlone(h, c)
  BY <1>2, HeadsAndItems DEF IsAlone
<1>7. Shelves(h, Cell, Heads, Items)
  BY <1>4, <1>5, <1>6 DEF Shelves
<1>8. WellFormed(Blank)
  BY <1>1, <1>5, <1>7 DEF WellFormed
<1>9. ASSUME NEW hd \in Heads PROVE Members(Blank, hd) = {}
  BY <1>1, <1>5, <1>8, MembersOfList
<1>. QED  BY <1>8, <1>9

\* initPcbs and initASL: every PCB and every descriptor is free.
LEMMA TablesOk ==
  /\ Ok(Tables, {}) /\ FreeIs(Tables, PCB)
  /\ Tables.parent = [p \in PCB |-> NULL]
  /\ Members(Tables, ready_queue) = {} /\ Members(Tables, semd_h) = {}
<1>. DEFINE pcbs == [Blank EXCEPT !.links = AddAll(@, CellsOf(pcbFree_h, PCB), pcbFree_h, "front")]
<1>1. pcbFree_h \in Heads /\ semdFree_h \in Heads /\ ready_queue \in Heads /\ semd_h \in Heads
  BY HeadTags
<1>2. Owner(pcbFree_h) = PCB /\ Owner(semdFree_h) = SEMD
  BY HeadTags DEF Owner
<1>3. \A tag, x : Loose(Blank, tag, x)
  BY BlankIsEmpty DEF Loose
<1>4. Added(Blank, pcbs, pcbFree_h, PCB)
  <2>. DEFINE cells == CellsOf(pcbFree_h, PCB)
  <2>1. pcbs = [Blank EXCEPT !.links = AddAll(@, cells, pcbFree_h, "front")]
    OBVIOUS
  <2>2. cells = CellsOf(pcbFree_h, PCB)
    OBVIOUS
  <2>3. PCB \subseteq Owner(pcbFree_h) /\ \A x \in PCB : Loose(Blank, Tag(pcbFree_h), x)
    BY <1>2, <1>3
  <2>. HIDE DEF pcbs, cells
  <2>. QED  BY <1>1, <2>1, <2>2, <2>3, BlankIsEmpty, TablesAreArrays, AddAllOk
<1>5. Tables = [pcbs EXCEPT !.links = AddAll(@, CellsOf(semdFree_h, SEMD), semdFree_h, "back")]
  <2>. DEFINE h0 == [next |-> Alone, prev |-> Alone]
              h1 == AddAll(h0, CellsOf(pcbFree_h, PCB), pcbFree_h, "front")
              h2 == AddAll(h1, CellsOf(semdFree_h, SEMD), semdFree_h, "back")
  <2>1. /\ {p_list(p) : p \in PCB} = CellsOf(pcbFree_h, PCB)
        /\ {s_link(s) : s \in SEMD} = CellsOf(semdFree_h, SEMD)
    BY HeadTags DEF CellsOf, p_list, s_link
  <2>2. Tables = [links |-> h2, parent |-> [p \in PCB |-> NULL],
                  semAdd |-> [p \in PCB |-> NULL], key |-> [s \in SEMD |-> NULL]]
    BY <2>1 DEF Tables
  <2>3. Blank.links = h0 /\ pcbs = [Blank EXCEPT !.links = h1]
    BY DEF Blank
  <2>4. pcbs = [links |-> h1, parent |-> [p \in PCB |-> NULL],
                semAdd |-> [p \in PCB |-> NULL], key |-> [s \in SEMD |-> NULL]]
    <3>. HIDE DEF h1, pcbs
    <3>. QED  BY <2>3 DEF Blank
  <2>. HIDE DEF h1, pcbs
  <2>5. pcbs.links = h1
    BY <2>4
  <2>. HIDE DEF h2
  <2>6. [pcbs EXCEPT !.links = h2] = Tables
    BY <2>2, <2>4
  <2>7. [pcbs EXCEPT !.links = AddAll(@, CellsOf(semdFree_h, SEMD), semdFree_h, "back")] = [pcbs EXCEPT !.links = h2]
    BY <2>5 DEF h2
  <2>. QED  BY <2>6, <2>7
<1>. HIDE DEF pcbs
<1>. DEFINE n == Tables
<1>6. Added(pcbs, n, semdFree_h, SEMD)
  <2>. DEFINE cells == CellsOf(semdFree_h, SEMD)
  <2>1. n = [pcbs EXCEPT !.links = AddAll(@, cells, semdFree_h, "back")]
    BY <1>5
  <2>2. cells = CellsOf(semdFree_h, SEMD)
    OBVIOUS
  <2>3. WellFormed(pcbs) /\ \A o \in Heads \ {pcbFree_h} : Members(pcbs, o) = {}
    BY <1>4, BlankIsEmpty DEF Added
  <2>4. \A x \in SEMD : Loose(pcbs, Tag(semdFree_h), x)
    <3>1. Tag(semdFree_h) # Tag(pcbFree_h)
      BY HeadTags
    <3>. QED  BY <2>3, <3>1 DEF Loose
  <2>5. SEMD \subseteq Owner(semdFree_h)
    BY <1>2
  <2>. HIDE DEF n, cells
  <2>. QED  BY <1>1, <2>1, <2>2, <2>3, <2>4, <2>5, TablesAreArrays, AddAllOk
<1>. HIDE DEF n
<1>7. pcbFree_h # semdFree_h
  BY HeadTags
<1>8. /\ WellFormed(n) /\ SameFields(Blank, n)
      /\ Members(n, pcbFree_h) = PCB /\ Members(n, semdFree_h) = SEMD
      /\ \A o \in Heads \ {pcbFree_h, semdFree_h} : Members(n, o) = {}
  BY <1>1, <1>4, <1>6, <1>7, BlankIsEmpty DEF Added, SameFields
<1>9. /\ n.parent = [p \in PCB |-> NULL] /\ n.key = [s \in SEMD |-> NULL]
  BY <1>8 DEF SameFields, Blank
<1>10. /\ Members(n, ready_queue) = {} /\ Members(n, semd_h) = {}
       /\ \A p \in PCB : Members(n, p_child(p)) = {}
       /\ \A s \in SEMD : Members(n, s_procq(s)) = {}
  BY <1>1, <1>8, HeadTags, HeadsDiffer
<1>11. AslOk(n)
  BY <1>8, <1>10 DEF AslOk
<1>12. TreeOk(n)
  BY <1>8, <1>9, <1>10, TablesAreArrays DEF TreeOk
<1>13. OutIs(n, {})
  BY <1>8, LooseProcess DEF OutIs
<1>. QED  BY <1>8, <1>9, <1>10, <1>11, <1>12, <1>13 DEF Ok, FreeIs, n

-----------------------------------------------------------------------------
(* The calls of the nucleus *)

ParentIs(n, f) == n.parent = f

\* Every active descriptor has a waiter of its own, and who is about to wait is
\* one process more than those: there is a free descriptor for it.
LEMMA EnoughDescriptors ==
  ASSUME NEW m, NEW out, Ok(m, out), NEW p \in out \cap PCB
  PROVE  Members(m, semdFree_h) # {}
<1>. SUFFICES ASSUME Members(m, semdFree_h) = {} PROVE FALSE
  OBVIOUS
<1>1. WellFormed(m) /\ AslOk(m) /\ Loose(m, "p_list", p)
  BY DEF Ok, OutIs
<1>. DEFINE f == [s \in SEMD |-> CHOOSE q : q \in Members(m, s_procq(s))]
<1>2. ASSUME NEW s \in SEMD PROVE f[s] \in Members(m, s_procq(s)) /\ f[s] \in PCB \ {p}
  <2>1. Members(m, s_procq(s)) # {}
    BY <1>1 DEF AslOk
  <2>2. f[s] \in Members(m, s_procq(s))
    BY <2>1
  <2>. HIDE DEF f
  <2>. QED  BY <1>1, <2>2, MembersAre, LooseProcess
<1>. DEFINE T == PCB \ {p}
<1>3. f \in Injection(SEMD, T)
  <2>1. f \in [SEMD -> T]
    BY <1>2
  <2>2. ASSUME NEW s \in SEMD, NEW t \in SEMD, f[s] = f[t] PROVE s = t
    <3>. HIDE DEF f
    <3>1. f[s] \in Members(m, s_procq(s)) /\ f[s] \in Members(m, s_procq(t))
      BY <1>2, <2>2
    <3>. QED  BY <1>1, <3>1, OneQueue
  <2>. HIDE DEF f, T
  <2>. QED  BY <2>1, <2>2 DEF Injection, IsInjective
<1>4. IsFiniteSet(T) /\ Cardinality(T) = Cardinality(PCB) - 1
  BY TablesAreArrays, FS_RemoveElement
<1>5. Cardinality(SEMD) <= Cardinality(T)
  <2>. HIDE DEF f, T
  <2>. QED  BY <1>3, <1>4, FS_Injection
<1>6. Cardinality(PCB) \in Nat /\ Cardinality(SEMD) \in Nat
  BY TablesAreArrays, FS_CardinalityType
<1>. HIDE DEF T
<1>. QED  BY <1>4, <1>5, <1>6, OneDescriptorForEachProcess

\* A process that runs, or that is between two queues, is not free.
LEMMA OutIsNotFree ==
  ASSUME NEW m, NEW out, Ok(m, out), NEW p \in PCB
  PROVE  /\ p \in out => p \notin Members(m, pcbFree_h) /\ p \notin Members(m, ready_queue)
         /\ p \notin out /\ p \notin Members(m, pcbFree_h) /\ p \notin Members(m, ready_queue) =>
              \E s \in SEMD : p \in Members(m, s_procq(s))
BY LooseProcess DEF Ok, OutIs

\* main(): the first process.
LEMMA FirstOk ==
  ASSUME NEW p, p = First(Tables, pcbFree_h),
         NEW n, n = insertProcQ(allocPcb(Tables), ready_queue, p)
  PROVE  /\ p \in PCB /\ Ok(n, {}) /\ FreeIs(n, PCB \ {p})
         /\ ReadyIs(n, <<p>>) /\ (\A k \in Key : Queue(n, k) = <<>>)
         /\ ParentIs(n, [q \in PCB |-> NULL])
<1>. DEFINE t == Tables
            d == allocPcb(t)
            none == {}
<1>1. Ok(t, none) /\ Members(t, pcbFree_h) = PCB /\ Members(t, semd_h) = {} /\ Members(t, ready_queue) = {}
  BY TablesOk DEF FreeIs
<1>2. ParentIs(t, [q \in PCB |-> NULL])
  BY TablesOk DEF ParentIs
<1>. HIDE DEF t
<1>3. p = First(t, pcbFree_h) /\ d = allocPcb(t) /\ n = insertProcQ(d, ready_queue, p)
  BY DEF t
<1>. HIDE DEF d, none
<1>4. WellFormed(t) /\ AslOk(t)
  BY <1>1 DEF Ok
<1>5. Entries(t, pcbFree_h) # <<>> /\ Entries(t, ready_queue) = <<>>
  BY <1>1, <1>4, FirstOfList, TablesAreArrays, HeadTags
<1>6. /\ p \in PCB /\ p \in Members(t, pcbFree_h) /\ Ok(d, none \cup {p})
      /\ FreeIs(d, Members(t, pcbFree_h) \ {p})
      /\ ReadyIs(d, Entries(t, ready_queue)) /\ SameWaiters(t, d) /\ SameParents(t, d)
  BY <1>1, <1>3, <1>5, AllocOk
<1>. DEFINE out == none \cup {p}
<1>7. p \in out \cap PCB
  BY <1>6
<1>. HIDE DEF out
<1>8. Ok(d, out)
  BY <1>6 DEF out
<1>9. /\ Ok(n, out \ {p}) /\ FreeIs(n, Members(d, pcbFree_h))
      /\ ReadyIs(n, Append(Entries(d, ready_queue), p)) /\ SameWaiters(d, n) /\ SameParents(d, n)
  BY <1>3, <1>7, <1>8, ReadyOk
<1>10. out \ {p} = {}
  BY DEF out, none
<1>11. \A k \in Key : Queue(t, k) = <<>>
  BY <1>1, <1>4, QueueOf
<1>12. Ok(n, {}) /\ FreeIs(n, PCB \ {p}) /\ \A k \in Key : Queue(n, k) = <<>>
  BY <1>1, <1>6, <1>9, <1>10, <1>11 DEF FreeIs, SameWaiters
<1>13. ParentIs(n, [q \in PCB |-> NULL])
  BY <1>2, <1>6, <1>9 DEF ParentIs, SameParents
<1>14. ReadyIs(n, <<p>>)
  <2>1. Entries(n, ready_queue) = Append(<<>>, p)
    BY <1>5, <1>6, <1>9 DEF ReadyIs
  <2>. QED  BY <2>1 DEF ReadyIs
<1>. QED  BY <1>6, <1>12, <1>13, <1>14

\* CREATEPROCESS: a free PCB goes to the ready queue and to the children of the
\* caller.
LEMMA CreateOk ==
  ASSUME NEW m, NEW out, Ok(m, out), NEW p \in PCB, p \in out, ~Empty(m, pcbFree_h),
         NEW new, new = First(m, pcbFree_h),
         NEW n, n = insertChild(insertProcQ(allocPcb(m), ready_queue, new), p, new)
  PROVE  /\ new \in Members(m, pcbFree_h) /\ Ok(n, out)
         /\ FreeIs(n, Members(m, pcbFree_h) \ {new})
         /\ ReadyIs(n, Append(Entries(m, ready_queue), new)) /\ SameWaiters(m, n)
         /\ ParentIs(n, [m.parent EXCEPT ![new] = p])
<1>. DEFINE d == allocPcb(m)
            a == insertProcQ(d, ready_queue, new)
            o == out \cup {new}
<1>1. WellFormed(m) /\ TreeOk(m)
  BY DEF Ok
<1>2. Entries(m, pcbFree_h) # <<>>
  BY <1>1, FirstOfList, HeadTags
<1>3. d = allocPcb(m) /\ a = insertProcQ(d, ready_queue, new) /\ n = insertChild(a, p, new)
  OBVIOUS
<1>. HIDE DEF d, a
<1>4. /\ new \in Members(m, pcbFree_h) /\ new \in PCB /\ new \notin out
      /\ Ok(d, o) /\ FreeIs(d, Members(m, pcbFree_h) \ {new})
      /\ ReadyIs(d, Entries(m, ready_queue)) /\ SameWaiters(m, d) /\ SameParents(m, d)
  BY <1>2, <1>3, AllocOk
<1>5. new \in o \cap PCB /\ o \ {new} = out
  BY <1>4
<1>. HIDE DEF o
<1>6. /\ Ok(a, out) /\ FreeIs(a, Members(d, pcbFree_h))
      /\ ReadyIs(a, Append(Entries(d, ready_queue), new)) /\ SameWaiters(d, a) /\ SameParents(d, a)
  <2>1. /\ Ok(a, o \ {new}) /\ FreeIs(a, Members(d, pcbFree_h))
        /\ ReadyIs(a, Append(Entries(d, ready_queue), new)) /\ SameWaiters(d, a) /\ SameParents(d, a)
    BY <1>3, <1>4, <1>5, ReadyOk
  <2>. QED  BY <1>5, <2>1
<1>7. a.parent = m.parent /\ m.parent[new] = NULL /\ Members(a, pcbFree_h) = Members(m, pcbFree_h) \ {new}
  BY <1>1, <1>4, <1>6 DEF SameParents, FreeIs, TreeOk
<1>8. a.parent[new] = NULL /\ new \notin Members(a, pcbFree_h) /\ p \notin Members(a, pcbFree_h)
  BY <1>7, OutIsNotFree
<1>9. /\ Ok(n, out) /\ FreeIs(n, Members(a, pcbFree_h))
      /\ ReadyIs(n, Entries(a, ready_queue)) /\ SameWaiters(a, n)
      /\ ParentBecomes(a, n, new, p)
  BY <1>3, <1>4, <1>6, <1>8, ChildOk
<1>10. ReadyIs(n, Append(Entries(m, ready_queue), new))
  BY <1>4, <1>6, <1>9 DEF ReadyIs
<1>11. SameWaiters(m, n) /\ FreeIs(n, Members(m, pcbFree_h) \ {new})
  BY <1>4, <1>6, <1>7, <1>9 DEF SameWaiters, FreeIs
<1>12. ParentIs(n, [m.parent EXCEPT ![new] = p])
  BY <1>7, <1>9 DEF ParentIs, ParentBecomes
<1>. QED  BY <1>4, <1>9, <1>10, <1>11, <1>12

\* Waking: the first waiter of an address goes to the ready queue.
LEMMA WakeReadyOk ==
  ASSUME NEW m, NEW out, Ok(m, out), NEW k \in Key, NEW s, s = search_key(m, k), s # NULL,
         NEW p, p = First(m, s_procq(s)),
         NEW n, n = insertProcQ(removeBlocked(m, k), ready_queue, p)
  PROVE  /\ Queue(m, k) # <<>> /\ p = Head(Queue(m, k)) /\ Ok(n, out)
         /\ FreeIs(n, Members(m, pcbFree_h)) /\ SameParents(m, n)
         /\ ReadyIs(n, Append(Entries(m, ready_queue), p))
         /\ WaitersBecome(m, n, k, Tail(Queue(m, k)))
<1>. DEFINE d == removeBlocked(m, k)
            o == out \cup {p}
<1>1. d = removeBlocked(m, k) /\ n = insertProcQ(d, ready_queue, p)
  OBVIOUS
<1>. HIDE DEF d
<1>. HIDE DEF o
<1>2. /\ Queue(m, k) # <<>> /\ p = Head(Queue(m, k)) /\ p \in PCB
      /\ Ok(d, o) /\ FreeIs(d, Members(m, pcbFree_h))
      /\ ReadyIs(d, Entries(m, ready_queue)) /\ SameParents(m, d)
      /\ WaitersBecome(m, d, k, Tail(Queue(m, k)))
  <2>1. Woken(m, d, out, k, p)
    BY <1>1, WakeOk
  <2>. QED  BY <2>1 DEF o, Woken
<1>3. p \notin out
  <2>1. Woken(m, d, out, k, p)
    BY <1>1, WakeOk
  <2>. QED  BY <2>1 DEF Woken
<1>. USE DEF o
<1>4. p \in o \cap PCB /\ o \ {p} = out
  BY <1>2, <1>3
<1>. HIDE DEF o
<1>5. /\ Ok(n, o \ {p}) /\ FreeIs(n, Members(d, pcbFree_h))
      /\ ReadyIs(n, Append(Entries(d, ready_queue), p)) /\ SameWaiters(d, n) /\ SameParents(d, n)
  BY <1>1, <1>2, <1>4, ReadyOk
<1>6. FreeIs(n, Members(m, pcbFree_h)) /\ SameParents(m, n) /\ Ok(n, out)
  BY <1>2, <1>4, <1>5 DEF FreeIs, SameParents
<1>7. ReadyIs(n, Append(Entries(m, ready_queue), p))
  BY <1>2, <1>5 DEF ReadyIs
<1>8. WaitersBecome(m, n, k, Tail(Queue(m, k)))
  <2>. DEFINE e == Tail(Queue(m, k))
  <2>1. WaitersBecome(m, d, k, e) /\ SameWaiters(d, n)
    BY <1>2, <1>5
  <2>. HIDE DEF e
  <2>2. WaitersBecome(m, n, k, e)
    BY <2>1, Zenon DEF WaitersBecome, SameWaiters
  <2>. QED  BY <2>2 DEF e
<1>. QED  BY <1>2, <1>6, <1>7, <1>8

\* What goes from a queue in two steps goes from it.
LEMMA WithoutTwice ==
  ASSUME NEW c, NEW b, NEW a, NEW S, NEW T, Table!Without(c, b, T), Table!Without(b, a, S)
  PROVE  Table!Without(c, a, S \cup T)
<1>1. c \in Seq(PCB) /\ {c[i] : i \in DOMAIN c} = {a[i] : i \in DOMAIN a} \ (S \cup T)
  BY DEF Table!Without
<1>2. ASSUME NEW i \in DOMAIN c, NEW j \in DOMAIN c, i < j
      PROVE  \E x, y \in DOMAIN a : x < y /\ a[x] = c[i] /\ a[y] = c[j]
  <2>1. PICK x \in DOMAIN b, y \in DOMAIN b : x < y /\ b[x] = c[i] /\ b[y] = c[j]
    BY <1>2 DEF Table!Without
  <2>2. PICK u \in DOMAIN a, w \in DOMAIN a : u < w /\ a[u] = b[x] /\ a[w] = b[y]
    BY <2>1 DEF Table!Without
  <2>. QED  BY <2>1, <2>2
<1>. QED  BY <1>1, <1>2 DEF Table!Without

\* The queues that lose p, then more.
LEMMA QueuesLoseTwice ==
  ASSUME NEW m, WellFormed(m), AslOk(m), NEW d, NEW n, NEW p, Dropped(m, d, p),
         NEW F, QueuesLose(d, n, F), p \in F
  PROVE  QueuesLose(m, n, F)
<1>1. ASSUME NEW q, q \in Seq(PCB), IsInjective(q), NEW r, Table!Without(r, RemoveFirst(q, p), F)
      PROVE  Table!Without(r, q, F)
  <2>1. Table!Without(q, q, {})
    BY <1>1, WithoutNothing
  <2>. DEFINE b == RemoveFirst(q, p)
              S == {} \cup {p}
  <2>2. Table!Without(b, q, S)
    BY <1>1, <2>1, WithoutMore
  <2>. HIDE DEF b
  <2>3. Table!Without(r, b, F)
    BY <1>1 DEF b
  <2>4. S \cup F = F
    OBVIOUS
  <2>. HIDE DEF S
  <2>5. Table!Without(r, q, S \cup F)
    BY <2>2, <2>3, WithoutTwice
  <2>. QED  BY <2>4, <2>5
<1>2. Table!Without(Entries(n, ready_queue), Entries(m, ready_queue), F)
  BY <1>1, QueueIsQueue DEF Dropped, QueuesLose
<1>3. ASSUME NEW k \in Key PROVE Table!Without(Queue(n, k), Queue(m, k), F)
  BY <1>1, QueueIsQueue DEF Dropped, QueuesLose
<1>. QED  BY <1>2, <1>3 DEF QueuesLose

\* The family F is gone: it is free, and in no queue.
Gone(m, n, F) ==
  /\ F \cap Members(m, pcbFree_h) = {} /\ FreeIs(n, Members(m, pcbFree_h) \cup F)
  /\ QueuesLose(m, n, F)
  /\ \A q \in PCB : n.parent[q] = IF q \in F THEN NULL ELSE m.parent[q]

\* TERMPROCESS: a process goes with its descendants.
LEMMA TerminateOk ==
  ASSUME NEW m, NEW out, Ok(m, out), NEW p \in PCB, p \notin Members(m, pcbFree_h),
         NEW d, d = (IF p \in out \cup Members(m, ready_queue) THEN m ELSE outBlockedPid(m, p)),
         NEW n, n = killTree(d, p), NEW F, F = Family(m, p)
  PROVE  Ok(n, out \ F) /\ Gone(m, n, F)
<1>1. CASE p \in out \cup Members(m, ready_queue)
  <2>1. d = m
    BY <1>1
  <2>2. n = killTree(m, p)
    BY <2>1
  <2>3. /\ Ok(n, out \ F) /\ F \cap Members(m, pcbFree_h) = {}
        /\ FreeIs(n, Members(m, pcbFree_h) \cup F) /\ QueuesLose(m, n, F)
        /\ \A q \in PCB : n.parent[q] = IF q \in F THEN NULL ELSE m.parent[q]
    BY <2>2, killTreeOk
  <2>. QED  BY <2>3 DEF Gone
<1>2. CASE p \notin out \cup Members(m, ready_queue)
  <2>1. d = outBlockedPid(m, p)
    BY <1>2
  <2>2. \E s \in SEMD : p \in Members(m, s_procq(s))
    BY <1>2, OutIsNotFree
  <2>. DEFINE o == out \cup {p}
  <2>. HIDE DEF o
  <2>3. /\ Ok(d, o) /\ FreeIs(d, Members(m, pcbFree_h)) /\ SameParents(m, d) /\ Dropped(m, d, p)
    BY <2>1, <2>2, outBlockedPid_Takes DEF o
  <2>4. F = Family(d, p) /\ p \in F
    BY <2>3, FamilyIsLeast DEF SameParents, Family
  <2>5. p \notin Members(d, pcbFree_h)
    BY <2>3 DEF FreeIs
  <2>6. /\ Ok(n, o \ F) /\ F \cap Members(d, pcbFree_h) = {}
        /\ FreeIs(n, Members(d, pcbFree_h) \cup F) /\ QueuesLose(d, n, F)
        /\ \A q \in PCB : n.parent[q] = IF q \in F THEN NULL ELSE d.parent[q]
    BY <2>3, <2>4, <2>5, killTreeOk
  <2>7. o \ F = out \ F
    BY <2>4 DEF o
  <2>8. QueuesLose(m, n, F)
    BY <2>3, <2>4, <2>6, QueuesLoseTwice DEF Ok
  <2>9. F \cap Members(m, pcbFree_h) = {} /\ FreeIs(n, Members(m, pcbFree_h) \cup F)
    BY <2>3, <2>6 DEF FreeIs
  <2>10. \A q \in PCB : n.parent[q] = IF q \in F THEN NULL ELSE m.parent[q]
    BY <2>3, <2>6 DEF SameParents
  <2>. QED  BY <2>6, <2>7, <2>8, <2>9, <2>10 DEF Gone
<1>. QED  BY <1>1, <1>2

-----------------------------------------------------------------------------
(* The invariant of the specification *)

\* The memory is well formed, and the processes that are in none of its queues
\* are those that run.
PcbInvariant == Ok(mem, running) /\ running \subseteq PCB

\* initPcbs, initASL and the first process of main() establish it.
LEMMA InitPcbs == Init => PcbInvariant
<1>. SUFFICES ASSUME Init PROVE PcbInvariant
  OBVIOUS
<1>. DEFINE p == First(Tables, pcbFree_h)
<1>1. mem = insertProcQ(allocPcb(Tables), ready_queue, p) /\ running = {}
  BY DEF Init
<1>2. Ok(mem, {})
  <2>. HIDE DEF p
  <2>1. p = First(Tables, pcbFree_h)
    BY DEF p
  <2>. QED  BY <1>1, <2>1, FirstOk
<1>. QED  BY <1>1, <1>2 DEF PcbInvariant

\* The actions, in terms of what they do to the lists.
LEMMA createProcessKeeps ==
  ASSUME PcbInvariant, NEW p \in PCB, createProcess(p)
  PROVE  PcbInvariant'
<1>1. /\ p \in running /\ ~Empty(mem, pcbFree_h) /\ Ok(mem, running)
      /\ mem' = insertChild(insertProcQ(allocPcb(mem), ready_queue, First(mem, pcbFree_h)),
                            p, First(mem, pcbFree_h))
      /\ running' = running
  BY DEF createProcess, PcbInvariant
<1>2. Ok(mem', running)
  BY <1>1, CreateOk
<1>. QED  BY <1>1, <1>2 DEF PcbInvariant

\* The first of the ready queue runs, and is in no queue any more.
LEMMA DispatchKeeps ==
  ASSUME PcbInvariant, Dispatch
  PROVE  PcbInvariant'
<1>1. /\ ~Empty(mem, ready_queue) /\ Ok(mem, running)
      /\ running' = running \cup {First(mem, ready_queue)}
      /\ mem' = removeProcQ(mem, ready_queue)
  BY DEF Dispatch, PcbInvariant
<1>2. Entries(mem, ready_queue) # <<>>
  BY <1>1, FirstOfList, HeadTags DEF Ok
<1>3. Ok(mem', running') /\ First(mem, ready_queue) \in PCB
  BY <1>1, <1>2, DispatchOk
<1>. QED  BY <1>1, <1>3 DEF PcbInvariant

\* A process whose time slice ends is in the ready queue, and does not run.
LEMMA PreemptKeeps ==
  ASSUME PcbInvariant, NEW p \in PCB, Preempt(p)
  PROVE  PcbInvariant'
<1>1. /\ p \in running \cap PCB /\ Ok(mem, running)
      /\ running' = running \ {p} /\ mem' = insertProcQ(mem, ready_queue, p)
  BY DEF Preempt, PcbInvariant
<1>2. Ok(mem', running \ {p})
  BY <1>1, ReadyOk
<1>. QED  BY <1>1, <1>2 DEF PcbInvariant

\* A process that blocks finds a descriptor, and does not run.
LEMMA BlockKeeps ==
  ASSUME PcbInvariant, NEW p \in PCB, NEW k \in Key, Block(p, k)
  PROVE  PcbInvariant'
<1>1. /\ p \in running /\ p \in running \cap PCB /\ Ok(mem, running)
      /\ running' = running \ {p} /\ mem' = insertBlocked(mem, val, k, p)
  BY DEF Block, PcbInvariant
<1>2. Members(mem, semdFree_h) # {}
  BY <1>1, EnoughDescriptors
<1>3. Ok(mem', running \ {p})
  BY <1>1, <1>2, BlockOk
<1>. QED  BY <1>1, <1>3 DEF PcbInvariant

\* A waiter that is woken is in the ready queue.
LEMMA WakeKeeps ==
  ASSUME PcbInvariant, NEW k \in Key, Wake(k)
  PROVE  PcbInvariant'
<1>1. /\ search_key(mem, k) # NULL /\ Ok(mem, running) /\ running' = running
      /\ mem' = insertProcQ(removeBlocked(mem, k), ready_queue,
                            First(mem, s_procq(search_key(mem, k))))
  BY DEF Wake, PcbInvariant
<1>2. Ok(mem', running)
  BY <1>1, WakeReadyOk
<1>. QED  BY <1>1, <1>2 DEF PcbInvariant

\* The processes that stay on a CPU when a family goes.
LEMMA StillRunning ==
  ASSUME NEW m, NEW out, Ok(m, out), out \subseteq PCB, NEW n, NEW F, Gone(m, n, F)
  PROVE  out \ Members(n, pcbFree_h) = out \ F
<1>1. \A p \in out : p \notin Members(m, pcbFree_h)
  BY OutIsNotFree
<1>2. Members(n, pcbFree_h) = Members(m, pcbFree_h) \cup F
  BY DEF Gone, FreeIs
<1>. QED  BY <1>1, <1>2

\* A process that is terminated is gone with its family, from the CPUs too.
LEMMA TerminateKills ==
  ASSUME PcbInvariant, NEW p \in PCB, Terminate(p), NEW F, F = Family(mem, p)
  PROVE  Ok(mem', running \ F) /\ Gone(mem, mem', F) /\ running' = running \ F
<1>. DEFINE d == IF p \in running \cup Members(mem, ready_queue) THEN mem ELSE outBlockedPid(mem, p)
<1>1. /\ p \notin Members(mem, pcbFree_h) /\ Ok(mem, running) /\ running \subseteq PCB
      /\ running' = running \ Members(mem', pcbFree_h) /\ mem' = killTree(d, p)
  BY DEF Terminate, PcbInvariant
<1>2. d = IF p \in running \cup Members(mem, ready_queue) THEN mem ELSE outBlockedPid(mem, p)
  OBVIOUS
<1>. HIDE DEF d
<1>3. Ok(mem', running \ F) /\ Gone(mem, mem', F)
  BY <1>1, <1>2, TerminateOk
<1>. QED  BY <1>1, <1>3, StillRunning

\* The processes that are left run or are in one queue.
LEMMA TerminateKeeps ==
  ASSUME PcbInvariant, NEW p \in PCB, Terminate(p)
  PROVE  PcbInvariant'
<1>1. running' = running \ Family(mem, p) /\ Ok(mem', running \ Family(mem, p)) /\ running \subseteq PCB
  BY TerminateKills DEF PcbInvariant
<1>. QED  BY <1>1 DEF PcbInvariant

\* Every call of the nucleus keeps it.
LEMMA StepPcbs == PcbInvariant /\ [Next]_vars => PcbInvariant'
<1>. SUFFICES ASSUME PcbInvariant, [Next]_vars PROVE PcbInvariant'
  OBVIOUS
<1>1. ASSUME NEW p \in PCB, createProcess(p) PROVE PcbInvariant'
  BY <1>1, createProcessKeeps
<1>2. ASSUME NEW p \in PCB, Preempt(p) PROVE PcbInvariant'
  BY <1>2, PreemptKeeps
<1>3. ASSUME NEW p \in PCB, Terminate(p) PROVE PcbInvariant'
  BY <1>3, TerminateKeeps
<1>4. ASSUME NEW p \in PCB, NEW k \in Key, Block(p, k) PROVE PcbInvariant'
  BY <1>4, BlockKeeps
<1>5. CASE Dispatch
  BY <1>5, DispatchKeeps
<1>6. ASSUME NEW k \in Key, Wake(k) PROVE PcbInvariant'
  BY <1>6, WakeKeeps
<1>7. ASSUME NEW k \in Key, Flip(k) PROVE PcbInvariant'
  BY <1>7 DEF Flip, PcbInvariant
<1>8. CASE UNCHANGED vars
  BY <1>8 DEF vars, PcbInvariant
<1>. QED  BY <1>1, <1>2, <1>3, <1>4, <1>5, <1>6, <1>7, <1>8 DEF Next

\* It holds in every reachable state.
THEOREM PcbInvariantHolds == Spec => []PcbInvariant
BY InitPcbs, StepPcbs, PTL DEF Spec

-----------------------------------------------------------------------------
\* Every list is closed in both directions, whatever the calls put into it and
\* take out of it.
THEOREM ListsAlwaysLinked == Spec => []ListsAreLinked
<1>1. PcbInvariant => ListsAreLinked
  BY MemoryOf DEF PcbInvariant, Ok, ListsAreLinked, HeapOn
<1>. QED  BY <1>1, PcbInvariantHolds, PTL

\* The ASL holds a descriptor for each address on which somebody waits, for no
\* other, and the rest of the table is free: none is lost by removeBlocked,
\* outBlocked or killTree.
THEOREM AslAlwaysExact == Spec => []AslIsExact
<1>1. PcbInvariant => AslIsExact
  <2>. SUFFICES ASSUME PcbInvariant PROVE AslIsExact
    OBVIOUS
  <2>1. WellFormed(mem) /\ AslOk(mem)
    BY DEF PcbInvariant, Ok
  <2>2. Active \subseteq SEMD /\ Members(mem, semdFree_h) \subseteq SEMD /\ Active \cap Members(mem, semdFree_h) = {}
    BY <2>1, MembersAre, OneQueue DEF Active
  <2>3. \A s \in SEMD : Empty(mem, s_procq(s)) <=> Members(mem, s_procq(s)) = {}
    BY <2>1, FirstOfList, HeadTags
  <2>4. /\ \A s \in SEMD : s \in Active \/ s \in Members(mem, semdFree_h)
        /\ \A s \in SEMD : s \in Active <=> Members(mem, s_procq(s)) # {}
        /\ \A s, t \in Active : mem.key[s] = mem.key[t] => s = t
        /\ \A s \in SEMD : \A p \in Members(mem, s_procq(s)) : mem.semAdd[p] = mem.key[s]
    BY <2>1 DEF AslOk, Active
  <2>. HIDE DEF Active
  <2>5. Active \cup Members(mem, semdFree_h) = SEMD
    BY <2>2, <2>4
  <2>. QED  BY <2>2, <2>3, <2>4, <2>5 DEF AslIsExact
<1>. QED  BY <1>1, PcbInvariantHolds, PTL

\* While a process runs there is a free descriptor for the semaphore on which
\* it may wait: insertBlocked cannot return its error.
THEOREM DescriptorsAlwaysSuffice == Spec => []DescriptorsSuffice
<1>1. PcbInvariant => DescriptorsSuffice
  <2>. SUFFICES ASSUME PcbInvariant, running # {} PROVE ~Empty(mem, semdFree_h)
    BY DEF DescriptorsSuffice
  <2>1. PICK p : p \in running \cap PCB
    BY DEF PcbInvariant
  <2>2. Ok(mem, running) /\ WellFormed(mem)
    BY DEF PcbInvariant, Ok
  <2>3. Members(mem, semdFree_h) # {}
    BY <2>1, <2>2, EnoughDescriptors
  <2>. QED  BY <2>2, <2>3, FirstOfList, HeadTags
<1>. QED  BY <1>1, PcbInvariantHolds, PTL

\* p_parent and the lists of children say the same of every live process.
THEOREM TreeAlwaysAgrees == Spec => []TreeAgrees
<1>1. PcbInvariant => TreeAgrees
  <2>. SUFFICES ASSUME PcbInvariant PROVE TreeAgrees
    OBVIOUS
  <2>1. WellFormed(mem) /\ TreeOk(mem)
    BY DEF PcbInvariant, Ok
  <2>2. ASSUME NEW p \in PCB PROVE Members(mem, p_child(p)) = {q \in PCB : mem.parent[q] = p}
    BY <2>1, MembersAre DEF TreeOk
  <2>. QED  BY <2>2 DEF TreeAgrees
<1>. QED  BY <1>1, PcbInvariantHolds, PTL

-----------------------------------------------------------------------------
(* The lists implement the table of processes. *)

\* What blocked is in the table.
Waiting(m) ==
  [k \in Key |-> IF search_key(m, k) = NULL THEN <<>> ELSE Entries(m, s_procq(search_key(m, k)))]

\* It has the queue of each address.
LEMMA WaitingIs ==
  ASSUME NEW m
  PROVE  DOMAIN Waiting(m) = Key /\ \A k \in Key : Waiting(m)[k] = Queue(m, k)
BY DEF Waiting, Queue

\* It is the same when no queue changes.
LEMMA WaitingSame ==
  ASSUME NEW m, NEW n, SameWaiters(m, n)
  PROVE  Waiting(n) = Waiting(m)
<1>1. \A k \in Key : Waiting(n)[k] = Waiting(m)[k]
  BY WaitingIs DEF SameWaiters
<1>2. Waiting(n) = [k \in Key |-> Waiting(n)[k]] /\ Waiting(m) = [k \in Key |-> Waiting(m)[k]]
  BY DEF Waiting
<1>. QED  BY <1>1, <1>2

WaitingBecomes(m, n, a, e) == Waiting(n) = [Waiting(m) EXCEPT ![a] = e]

\* It changes where the queue of one address does.
LEMMA WaitingChanged ==
  ASSUME NEW m, NEW n, NEW a \in Key, NEW e, WaitersBecome(m, n, a, e)
  PROVE  WaitingBecomes(m, n, a, e)
<1>1. \A k \in Key : Waiting(n)[k] = IF k = a THEN e ELSE Waiting(m)[k]
  BY WaitingIs DEF WaitersBecome
<1>2. Waiting(n) = [k \in Key |-> Waiting(n)[k]] /\ Waiting(m) = [k \in Key |-> Waiting(m)[k]]
  BY DEF Waiting
<1>. HIDE DEF Waiting
<1>3. [Waiting(m) EXCEPT ![a] = e] = [k \in Key |-> IF k = a THEN e ELSE Waiting(m)[k]]
  BY <1>2
<1>. QED  BY <1>1, <1>2, <1>3 DEF WaitingBecomes

\* The table starts with one process, in the ready queue.
LEMMA InitImplements == Init => Table!Init
<1>. SUFFICES ASSUME Init PROVE Table!Init
  OBVIOUS
<1>. DEFINE p == First(Tables, pcbFree_h)
<1>1. mem = insertProcQ(allocPcb(Tables), ready_queue, p) /\ running = {}
  BY DEF Init
<1>2. p = First(Tables, pcbFree_h)
  OBVIOUS
<1>. HIDE DEF p
<1>3. /\ p \in PCB /\ FreeIs(mem, PCB \ {p}) /\ ReadyIs(mem, <<p>>)
      /\ (\A k \in Key : Queue(mem, k) = <<>>) /\ ParentIs(mem, [q \in PCB |-> NULL])
  BY <1>1, <1>2, FirstOk
<1>4. Waiting(mem) = [k \in Key |-> <<>>]
  <2>1. Waiting(mem) = [k \in Key |-> Waiting(mem)[k]]
    BY DEF Waiting
  <2>2. \A k \in Key : Waiting(mem)[k] = <<>>
    BY <1>3, WaitingIs
  <2>. QED  BY <2>1, <2>2
<1>. QED  BY <1>1, <1>3, <1>4 DEF Table!Init, Waiting, FreeIs, ReadyIs, ParentIs

\* Each call does to the table what it promises.
LEMMA CreateImplements ==
  ASSUME PcbInvariant, NEW p \in PCB, createProcess(p)
  PROVE  Table!Create(p)
<1>. DEFINE new == First(mem, pcbFree_h)
<1>1. /\ p \in running /\ ~Empty(mem, pcbFree_h) /\ Ok(mem, running) /\ running' = running
      /\ mem' = insertChild(insertProcQ(allocPcb(mem), ready_queue, new), p, new)
  BY DEF createProcess, PcbInvariant
<1>2. new = First(mem, pcbFree_h)
  OBVIOUS
<1>. HIDE DEF new
<1>3. /\ new \in Members(mem, pcbFree_h) /\ FreeIs(mem', Members(mem, pcbFree_h) \ {new})
      /\ ReadyIs(mem', Append(Entries(mem, ready_queue), new)) /\ SameWaiters(mem, mem')
      /\ ParentIs(mem', [mem.parent EXCEPT ![new] = p])
  BY <1>1, <1>2, CreateOk
<1>4. Waiting(mem') = Waiting(mem)
  BY <1>3, WaitingSame
<1>. QED  BY <1>1, <1>3, <1>4 DEF Table!Create, Waiting, FreeIs, ReadyIs, ParentIs

\* Dispatch takes the head of the ready queue.
LEMMA DispatchImplements ==
  ASSUME PcbInvariant, Dispatch
  PROVE  Table!Dispatch
<1>1. /\ ~Empty(mem, ready_queue) /\ Ok(mem, running) /\ Cardinality(running) < NCPU
      /\ running' = running \cup {First(mem, ready_queue)}
      /\ mem' = removeProcQ(mem, ready_queue)
  BY DEF Dispatch, PcbInvariant
<1>2. Entries(mem, ready_queue) # <<>>
  BY <1>1, FirstOfList, HeadTags DEF Ok
<1>3. /\ First(mem, ready_queue) = Head(Entries(mem, ready_queue))
      /\ FreeIs(mem', Members(mem, pcbFree_h)) /\ ReadyIs(mem', Tail(Entries(mem, ready_queue)))
      /\ SameWaiters(mem, mem') /\ SameParents(mem, mem')
  BY <1>1, <1>2, DispatchOk
<1>4. Waiting(mem') = Waiting(mem)
  BY <1>3, WaitingSame
<1>5. Table!Cardinality(running) < NCPU
  BY <1>1 DEF Table!Cardinality, Cardinality
<1>. QED  BY <1>1, <1>2, <1>3, <1>4, <1>5 DEF Table!Dispatch, Waiting, FreeIs, ReadyIs, SameParents

\* Preempt appends to the ready queue.
LEMMA PreemptImplements ==
  ASSUME PcbInvariant, NEW p \in PCB, Preempt(p)
  PROVE  Table!Preempt(p)
<1>1. /\ p \in running \cap PCB /\ Ok(mem, running)
      /\ running' = running \ {p} /\ mem' = insertProcQ(mem, ready_queue, p)
  BY DEF Preempt, PcbInvariant
<1>2. /\ FreeIs(mem', Members(mem, pcbFree_h)) /\ SameWaiters(mem, mem') /\ SameParents(mem, mem')
      /\ ReadyIs(mem', Append(Entries(mem, ready_queue), p))
  BY <1>1, ReadyOk
<1>3. Waiting(mem') = Waiting(mem)
  BY <1>2, WaitingSame
<1>. QED  BY <1>1, <1>2, <1>3 DEF Table!Preempt, Waiting, FreeIs, ReadyIs, SameParents

\* Block appends to the queue of the address, whatever descriptor serves it.
LEMMA BlockImplements ==
  ASSUME PcbInvariant, NEW p \in PCB, NEW k \in Key, Block(p, k)
  PROVE  Table!Block(p, k)
<1>1. /\ p \in running /\ p \in running \cap PCB /\ Ok(mem, running)
      /\ running' = running \ {p} /\ mem' = insertBlocked(mem, val, k, p)
  BY DEF Block, PcbInvariant
<1>2. Members(mem, semdFree_h) # {}
  BY <1>1, EnoughDescriptors
<1>. DEFINE e == Append(Queue(mem, k), p)
<1>3. /\ FreeIs(mem', Members(mem, pcbFree_h)) /\ SameParents(mem, mem')
      /\ ReadyIs(mem', Entries(mem, ready_queue)) /\ WaitersBecome(mem, mem', k, e)
  BY <1>1, <1>2, BlockOk
<1>4. e = Append(Waiting(mem)[k], p)
  BY WaitingIs
<1>. HIDE DEF e
<1>5. WaitingBecomes(mem, mem', k, e)
  BY <1>3, WaitingChanged
<1>6. Waiting(mem') = [Waiting(mem) EXCEPT ![k] = Append(@, p)]
  BY <1>4, <1>5 DEF WaitingBecomes
<1>7. /\ Members(mem', pcbFree_h) = Members(mem, pcbFree_h)
      /\ Entries(mem', ready_queue) = Entries(mem, ready_queue) /\ mem'.parent = mem.parent
  BY <1>3 DEF FreeIs, ReadyIs, SameParents
<1>. QED  BY <1>1, <1>6, <1>7 DEF Table!Block, Waiting

\* Wake moves the head of the queue of the address to the ready queue.
LEMMA WakeImplements ==
  ASSUME PcbInvariant, NEW k \in Key, Wake(k)
  PROVE  Table!Wake(k)
<1>. DEFINE s == search_key(mem, k)
            p == First(mem, s_procq(s))
<1>1. /\ s # NULL /\ Ok(mem, running) /\ running' = running
      /\ mem' = insertProcQ(removeBlocked(mem, k), ready_queue, p)
  BY DEF Wake, PcbInvariant
<1>2. s = search_key(mem, k) /\ p = First(mem, s_procq(s))
  OBVIOUS
<1>. HIDE DEF s, p
<1>. DEFINE e == Tail(Queue(mem, k))
<1>3. /\ Queue(mem, k) # <<>> /\ p = Head(Queue(mem, k))
      /\ FreeIs(mem', Members(mem, pcbFree_h)) /\ SameParents(mem, mem')
      /\ ReadyIs(mem', Append(Entries(mem, ready_queue), p))
      /\ WaitersBecome(mem, mem', k, e)
  BY <1>1, <1>2, WakeReadyOk
<1>4. e = Tail(Waiting(mem)[k]) /\ Waiting(mem)[k] # <<>> /\ p = Head(Waiting(mem)[k])
  BY <1>3, WaitingIs
<1>. HIDE DEF e
<1>5. WaitingBecomes(mem, mem', k, e)
  BY <1>3, WaitingChanged
<1>6. Waiting(mem') = [Waiting(mem) EXCEPT ![k] = Tail(@)]
  BY <1>4, <1>5 DEF WaitingBecomes
<1>7. /\ Members(mem', pcbFree_h) = Members(mem, pcbFree_h)
      /\ Entries(mem', ready_queue) = Append(Entries(mem, ready_queue), Head(Waiting(mem)[k]))
      /\ mem'.parent = mem.parent
  BY <1>3, <1>4 DEF FreeIs, ReadyIs, SameParents
<1>. QED  BY <1>1, <1>4, <1>6, <1>7 DEF Table!Wake, Waiting

\* killTree removes a process and its descendants, wherever they are.
LEMMA TerminateImplements ==
  ASSUME PcbInvariant, NEW p \in PCB, Terminate(p)
  PROVE  Table!Kill(p)
<1>. DEFINE F == Family(mem, p)
<1>1. F = Family(mem, p)
  OBVIOUS
<1>2. F = Table!Descendants(p)
  BY DEF Table!Descendants, Family
<1>. HIDE DEF F
<1>3. Gone(mem, mem', F) /\ running' = running \ F
  BY <1>1, TerminateKills
<1>4. p \notin Members(mem, pcbFree_h) /\ Members(mem', pcbFree_h) = Members(mem, pcbFree_h) \cup F
  BY <1>3 DEF Terminate, Gone, FreeIs
<1>5. Table!Without(Entries(mem', ready_queue), Entries(mem, ready_queue), F)
  BY <1>3 DEF Gone, QueuesLose
<1>6. /\ DOMAIN Waiting(mem') = Key
      /\ \A k \in Key : Table!Without(Waiting(mem')[k], Waiting(mem)[k], F)
  BY <1>3, WaitingIs DEF Gone, QueuesLose
<1>7. mem'.parent = [q \in PCB |-> IF q \in F THEN NULL ELSE mem.parent[q]]
  <2>1. mem'.parent \in [PCB -> PCB \cup {NULL}]
    BY TerminateKeeps DEF PcbInvariant, Ok, WellFormed, Mem
  <2>2. \A q \in PCB : mem'.parent[q] = IF q \in F THEN NULL ELSE mem.parent[q]
    BY <1>3 DEF Gone
  <2>. QED  BY <2>1, <2>2
<1>. QED  BY <1>2, <1>3, <1>4, <1>5, <1>6, <1>7 DEF Table!Kill, Waiting

\* A step of the lists is a step of the table, or changes nothing in it.
LEMMA StepImplements == PcbInvariant /\ [Next]_vars => [Table!Next]_(Table!vars)
<1>. SUFFICES ASSUME PcbInvariant, [Next]_vars PROVE [Table!Next]_(Table!vars)
  OBVIOUS
<1>1. ASSUME NEW p \in PCB, createProcess(p) PROVE Table!Next
  BY <1>1, CreateImplements DEF Table!Next
<1>2. ASSUME NEW p \in PCB, Preempt(p) PROVE Table!Next
  BY <1>2, PreemptImplements DEF Table!Next
<1>3. ASSUME NEW p \in PCB, Terminate(p) PROVE Table!Next
  BY <1>3, TerminateImplements DEF Table!Next
<1>4. ASSUME NEW p \in PCB, NEW k \in Key, Block(p, k) PROVE Table!Next
  BY <1>4, BlockImplements DEF Table!Next
<1>5. CASE Dispatch
  BY <1>5, DispatchImplements DEF Table!Next
<1>6. ASSUME NEW k \in Key, Wake(k) PROVE Table!Next
  BY <1>6, WakeImplements DEF Table!Next
<1>7. ASSUME mem' = mem, running' = running PROVE UNCHANGED Table!vars
  BY <1>7 DEF Table!vars
<1>8. ASSUME NEW k \in Key, Flip(k) PROVE UNCHANGED Table!vars
  BY <1>7, <1>8 DEF Flip
<1>9. CASE UNCHANGED vars
  BY <1>7, <1>9 DEF vars
<1>. QED  BY <1>1, <1>2, <1>3, <1>4, <1>5, <1>6, <1>8, <1>9 DEF Next

\* pcb.c, asl.c and killTree on their linked lists do what the table of the
\* processes promises: a pool, FIFO queues and a tree.
THEOREM ListsImplementTable == Spec => ImplementsTable
<1>1. Init => Table!Init
  BY InitImplements
<1>2. PcbInvariant /\ [Next]_vars => [Table!Next]_(Table!vars)
  BY StepImplements
<1>. QED  BY <1>1, <1>2, PcbInvariantHolds, PTL DEF Spec, ImplementsTable, Table!Spec

=============================================================================
