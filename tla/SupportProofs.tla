--------------------------- MODULE SupportProofs ---------------------------
(* While the writes to the flash devices succeed, the mutexes of the       *)
(* support level are released by their holders only, and the test process  *)
(* comes to its end last, for every number of U-procs, lines and frames.   *)
EXTENDS Support, FiniteSetTheorems, TLAPS

Mutexes == Device \cup {Pool}

(* Semaphores by themselves: v is the value, q the queue, and U the U-procs *)
(* that have called P, and not V yet.                                      *)

InQueue(p, q) == \E i \in DOMAIN q : q[i][1] = p
Has(p, q, U)  == p \in U /\ ~InQueue(p, q)

\* Only calls of P wait, each of another process; nobody waits for a mutex
\* that is free; and nobody has it together with another.
Mutex(v, q, U) ==
  /\ \A i \in DOMAIN q : q[i][2] = 0 /\ q[i][1] \in U
  /\ \A i, j \in DOMAIN q : q[i][1] = q[j][1] => i = j
  /\ q # <<>> => v = 0
  /\ \A a \in U : Has(a, q, U) => v = 0
  /\ \A a, b \in U : Has(a, q, U) /\ Has(b, q, U) => a = b

Held(v, q, U) == v = 0 => \E a \in U : Has(a, q, U)

\* What a call of process p with the given op may do.
Call(p, op, v, q, v2, q2) ==
  \/ v = op /\ q2 = Append(q, <<p, op>>) /\ v2 = v
  \/ v # op /\ q # <<>> /\ q2 = Tail(q) /\ v2 = v
  \/ v # op /\ q = <<>> /\ q2 = q /\ v2 = op

-----------------------------------------------------------------------------
\* P on a mutex that the caller has not.
LEMMA MutexAcquired ==
  ASSUME NEW v \in {0, 1}, NEW q \in Seq(Proc \X {0, 1}), NEW U \in SUBSET Asid,
         NEW v2, NEW q2, NEW a \in Asid, a \notin U,
         Mutex(v, q, U), Call(a, 0, v, q, v2, q2)
  PROVE  /\ v2 \in {0, 1} /\ q2 \in Seq(Proc \X {0, 1})
         /\ Mutex(v2, q2, U \cup {a})
         /\ Held(v, q, U) => Held(v2, q2, U \cup {a})
         /\ \A b \in Asid \ {a} : InQueue(b, q2) => InQueue(b, q)
<1>1. ~InQueue(a, q)
  BY DEF Mutex, InQueue
<1>2. CASE v = 0
  <2>1. q2 = Append(q, <<a, 0>>) /\ v2 = 0
    BY <1>2 DEF Call
  <2>2. /\ <<a, 0>> \in Proc \X {0, 1}
        /\ q2 \in Seq(Proc \X {0, 1}) /\ Len(q2) = Len(q) + 1
        /\ \A i \in DOMAIN q : i \in DOMAIN q2 /\ q2[i] = q[i]
        /\ q2[Len(q) + 1] = <<a, 0>> /\ Len(q) + 1 \in DOMAIN q2
        /\ \A i \in DOMAIN q2 : i \in DOMAIN q \/ i = Len(q) + 1
    BY <2>1 DEF Proc
  <2>3. InQueue(a, q2)
    BY <2>2 DEF InQueue
  <2>4. \A b \in Asid : InQueue(b, q2) <=> InQueue(b, q) \/ b = a
    BY <2>2 DEF InQueue
  <2>5. \A b \in U : Has(b, q2, U \cup {a}) <=> Has(b, q, U)
    BY <2>4 DEF Has
  <2>6. ~Has(a, q2, U \cup {a})
    BY <2>3 DEF Has
  <2>7. \A i \in DOMAIN q2 : q2[i][2] = 0 /\ q2[i][1] \in U \cup {a}
    BY <2>2 DEF Mutex
  <2>8. \A i, j \in DOMAIN q2 : q2[i][1] = q2[j][1] => i = j
    BY <2>2, <1>1 DEF Mutex, InQueue
  <2>9. Mutex(v2, q2, U \cup {a})
    BY <2>1, <2>5, <2>6, <2>7, <2>8 DEF Mutex
  <2>. QED
    BY <1>2, <2>1, <2>2, <2>4, <2>5, <2>9 DEF Held
<1>3. CASE v = 1
  <2>1. q = <<>> /\ q2 = <<>> /\ v2 = 0
    BY <1>3 DEF Call, Mutex
  <2>2. \A b \in Asid : ~InQueue(b, q2)
    BY <2>1 DEF InQueue
  <2>3. U = {}
    BY <1>3, <2>1, <2>2 DEF Mutex, Has
  <2>4. Mutex(v2, q2, {a}) /\ Held(v2, q2, {a})
    BY <2>1, <2>2 DEF Mutex, Has, Held, InQueue
  <2>5. U \cup {a} = {a} /\ q2 \in Seq(Proc \X {0, 1})
    BY <2>1, <2>3
  <2>. QED
    BY <2>1, <2>2, <2>4, <2>5
<1>. QED
  BY <1>2, <1>3

\* V on a mutex that the caller has.
LEMMA MutexReleased ==
  ASSUME NEW v \in {0, 1}, NEW q \in Seq(Proc \X {0, 1}), NEW U \in SUBSET Asid,
         NEW v2, NEW q2, NEW a \in U, ~InQueue(a, q),
         Mutex(v, q, U), Call(a, 1, v, q, v2, q2)
  PROVE  /\ v2 \in {0, 1} /\ q2 \in Seq(Proc \X {0, 1})
         /\ Mutex(v2, q2, U \ {a})
         /\ Held(v2, q2, U \ {a})
         /\ \A b \in Asid : InQueue(b, q2) => InQueue(b, q)
<1>1. v = 0 /\ \A b \in U : Has(b, q, U) => b = a
  BY DEF Mutex, Has
<1>2. CASE q # <<>>
  <2>1. q2 = Tail(q) /\ v2 = 0
    BY <1>1, <1>2 DEF Call
  <2>2. /\ q2 \in Seq(Proc \X {0, 1}) /\ Len(q2) = Len(q) - 1 /\ Len(q) \in Nat \ {0}
        /\ \A i \in DOMAIN q2 : i + 1 \in DOMAIN q /\ q2[i] = q[i + 1] /\ i \in Nat \ {0}
        /\ \A i \in DOMAIN q : i = 1 \/ (i - 1 \in DOMAIN q2 /\ q2[i - 1] = q[i])
        /\ 1 \in DOMAIN q
    BY <1>2, <2>1
  <2> DEFINE w == q[1][1]
  <2>3. w \in U /\ w # a
    BY <2>2 DEF Mutex, InQueue
  <2>4. ~InQueue(w, q2)
    BY <2>2 DEF Mutex, InQueue
  <2>5. \A b \in Asid : InQueue(b, q2) => InQueue(b, q)
    BY <2>2 DEF InQueue
  <2>6. \A b \in Asid : InQueue(b, q) => InQueue(b, q2) \/ b = w
    BY <2>2 DEF InQueue
  <2>7. \A b \in U \ {a} : Has(b, q2, U \ {a}) <=> b = w
    BY <1>1, <2>3, <2>4, <2>6 DEF Has
  <2>8. \A i \in DOMAIN q2 : q2[i][2] = 0 /\ q2[i][1] \in U \ {a}
    BY <2>2 DEF Mutex, InQueue
  <2>9. \A i, j \in DOMAIN q2 : q2[i][1] = q2[j][1] => i = j
    BY <2>2 DEF Mutex
  <2>10. Mutex(v2, q2, U \ {a}) /\ Held(v2, q2, U \ {a})
    BY <2>1, <2>3, <2>7, <2>8, <2>9 DEF Mutex, Held
  <2>. QED
    BY <2>1, <2>2, <2>5, <2>10
<1>3. CASE q = <<>>
  <2>1. q2 = <<>> /\ v2 = 1
    BY <1>1, <1>3 DEF Call
  <2>2. \A b \in Asid : ~InQueue(b, q2)
    BY <2>1 DEF InQueue
  <2>3. U = {a}
    BY <1>1, <1>3, <2>1, <2>2 DEF Has
  <2>4. Mutex(v2, q2, {}) /\ Held(v2, q2, {})
    BY <2>1 DEF Mutex, Held
  <2>5. U \ {a} = {} /\ q2 \in Seq(Proc \X {0, 1})
    BY <2>1, <2>3
  <2>. QED
    BY <2>1, <2>2, <2>4, <2>5
<1>. QED
  BY <1>2, <1>3

\* Somebody who does not wait does not use the mutex any more.
LEMMA MutexKept ==
  ASSUME NEW v, NEW q, NEW U \in SUBSET Asid, NEW U2 \in SUBSET U, Mutex(v, q, U),
         \A b \in U : InQueue(b, q) => b \in U2
  PROVE  Mutex(v, q, U2)
<1>1. \A i \in DOMAIN q : q[i][1] \in U2
  BY DEF Mutex, InQueue
<1>2. \A b \in U2 : Has(b, q, U2) => Has(b, q, U)
  BY DEF Has
<1>. QED
  BY <1>1, <1>2 DEF Mutex

-----------------------------------------------------------------------------
(* The inductive invariant                                                 *)

\* The devices are used from the call of P to the one of V: by system calls
\* across the page faults of the message, and by the pager.
InFlash == ({"write", "read"} \X {"set", "in", "clear", "V"})
  \cup ({"failed"} \X {"clear", "V"})

Uses(a, s) ==
  \/ s = Pool /\ at[a] \in InPool
  \/ dev[a] # NULL /\ s = dev[a] /\ at[a] # <<"call", "P">>
  \/ s = <<Flash, target[a]>> /\ at[a] \in InFlash

Users(s) == {a \in Asid : Uses(a, s)}

MutexInv  == \A s \in Mutexes : Mutex(value[s], queue[s], Users(s))
PoolInv   == Held(value[Pool], queue[Pool], Users(Pool))

\* asidSemSwapPool is the U-proc that is in one of these places.
Marked == ({"pager"} \X {"in", "clear", "read", "install"})
  \cup ({"write", "read", "failed"} \X {"P", "set", "in", "clear", "V"})
  \cup {<<"error", "clear">>, <<"killUproc", "in">>, <<"killUproc", "clear">>}

MarkInv ==
  \A a \in Asid :
    /\ asidSemSwapPool = a <=> at[a] \in Marked
    /\ InQueue(a, queue[Pool]) => at[a] \notin Marked

\* The locals are what the steps take them for, and the frames are freed.
Local(a) ==
  /\ dev[a] # NULL => \E l \in Line : dev[a] = <<l, a>>
  /\ at[a] = User => dev[a] = NULL
  /\ at[a][1] = "call" => dev[a] # NULL
  /\ at[a][1] # "held"
  /\ at[a][1] \in {"read", "failed", "error", "killUproc"} => target[a] = a
  /\ at[a][1] = "write" =>
       target[a] \in Asid /\ frame[a] \in Frame /\ sw_asid[frame[a]] = target[a]
  /\ at[a] \in {<<"pager", "read">>, <<"pager", "install">>} => frame[a] \in Frame
  /\ at[a][1] = "read" => frame[a] \in Frame
  /\ at[a] \in {<<"killUproc", "signal">>, <<"killUproc", "end">>} => dev[a] = NULL
  /\ at[a] \in {"killUproc"} \X {"clear", "V", "device", "signal", "end"} =>
       \A f \in Frame : sw_asid[f] # a

LocalInv == \A a \in Asid : Local(a)

\* suppDevSemsAsid remembers a device while it is held, or while another
\* U-proc writes back the page of this one.
Excused(a) ==
  \/ at[a] \in {<<"read", "in">>, <<"read", "clear">>, <<"failed", "clear">>}
  \/ dev[a] # NULL /\ at[a] \in {<<"call", "in">>, <<"call", "clear">>}
  \/ dev[a] # NULL /\ at[a][1] \in {"pager", "write", "read"}

Writes(b, a) == at[b] \in {<<"write", "in">>, <<"write", "clear">>} /\ target[b] = a

SuppInv ==
  \A a \in Asid : suppDevSemsAsid[a] = NULL \/ Excused(a) \/ \E b \in Asid : Writes(b, a)

\* Every U-proc that has told the test process is counted once.
Ended == {a \in Asid : at[a] = <<"killUproc", "end">>}

MasterInv ==
  /\ at[Test] = <<"create", "in">> => awaited = 0
  /\ at[Test] = <<"wait", "P">> => awaited < Cardinality(Asid)
  /\ at[Test] = <<"wait", "end">> => awaited = Cardinality(Asid)
  /\ \/ /\ queue[Master] = <<<<Test, 0>>>> /\ value[Master] = 0
        /\ Cardinality(Ended) + 1 = awaited
     \/ /\ \A i \in DOMAIN queue[Master] : queue[Master][i][1] \in Ended
        /\ queue[Master] # <<>> => value[Master] = 1
        /\ Cardinality(Ended) = awaited + value[Master] + Len(queue[Master])

AtTest == {<<"create", "in">>, <<"wait", "P">>, <<"wait", "end">>}
AtType == at \in [Proc -> Labels \cup AtTest]

Inv == TypeOK /\ AtType /\ MutexInv /\ PoolInv /\ MarkInv /\ LocalInv /\ SuppInv /\ MasterInv

USE NamesAssumption

-----------------------------------------------------------------------------
(* What the steps of a U-proc have in common                               *)

\* Process a moves, and no other one.
Alone(a) ==
  /\ at' \in [Proc -> Labels \cup AtTest] /\ at'[a] \in Labels
  /\ dev' \in [Asid -> Device \cup {NULL}]
  /\ target' \in [Asid -> Asid \cup {NULL}]
  /\ frame' \in [Asid -> Frame \cup {NULL}]
  /\ \A p \in Proc \ {a} : at'[p] = at[p]
  /\ \A b \in Asid \ {a} : dev'[b] = dev[b] /\ target'[b] = target[b] /\ frame'[b] = frame[b]
  /\ awaited' = awaited

\* The types of the semaphores and of the rest.
SemType  == /\ value \in [Sem -> {0, 1}] /\ queue \in [Sem -> Seq(Proc \X {0, 1})]
            /\ live \subseteq Proc
RestType == /\ suppDevSemsAsid \in [Asid -> Device \cup {NULL}]
            /\ asidSemSwapPool \in Asid \cup {NULL}
            /\ sw_asid \in [Frame -> Asid \cup {NULL}]

Quiet(a) == \A s \in Sem : ~InQueue(a, queue[s])

LEMMA QuietMeans ==
  ASSUME NEW a \in Asid, ~Waits(a)
  PROVE  Quiet(a)
BY DEF Waits, Quiet, InQueue

LEMMA SemNames ==
  /\ Pool \in Mutexes /\ Pool # Master /\ Pool \notin Device /\ Master \notin Mutexes
  /\ Sem = Mutexes \cup {Master} /\ NULL \notin Device
  /\ \A a \in Asid : <<Flash, a>> \in Device /\ <<Flash, a>> # Pool
  /\ \A a \in Asid, l \in Line : <<l, a>> \in Device /\ <<l, a>> # Pool
  /\ \A a, b \in Asid, l \in Line : <<Flash, b>> # <<l, a>>
BY DEF Mutexes, Sem, Device, Pool, Master

LEMMA OthersUse ==
  ASSUME NEW a \in Asid, Alone(a), NEW b \in Asid \ {a}, NEW s
  PROVE  Uses(b, s)' <=> Uses(b, s)
BY DEF Alone, Uses, Proc

\* A step that calls no semaphore.
LEMMA MutexQuiet ==
  ASSUME Inv, NEW a \in Asid, Quiet(a), Alone(a), UNCHANGED sems,
         \A s \in Mutexes : Uses(a, s)' => Uses(a, s),
         Uses(a, Pool) => Uses(a, Pool)'
  PROVE  /\ SemType' /\ MutexInv' /\ PoolInv'
         /\ \A b \in Asid : InQueue(b, queue[Pool])' => InQueue(b, queue[Pool])
         /\ queue'[Master] = queue[Master] /\ value'[Master] = value[Master]
<1>1. value' = value /\ queue' = queue /\ live' = live
  BY DEF sems
<1>2. SemType'
  BY <1>1 DEF Inv, TypeOK, SemType
<1>3. ASSUME NEW s \in Mutexes
      PROVE  Mutex(value[s], queue[s], Users(s)')
  <2>1. Users(s)' \in SUBSET Users(s)
    BY OthersUse DEF Users
  <2>2. \A b \in Users(s) : InQueue(b, queue[s]) => b \in Users(s)'
    BY OthersUse, SemNames DEF Users, Quiet
  <2>3. Mutex(value[s], queue[s], Users(s))
    BY DEF Inv, MutexInv
  <2>4. Users(s) \in SUBSET Asid
    BY DEF Users
  <2>. QED
    BY <2>1, <2>2, <2>3, <2>4, MutexKept
<1>4. MutexInv'
  BY <1>1, <1>3 DEF MutexInv
<1>5. Users(Pool)' = Users(Pool)
  BY OthersUse, SemNames DEF Users
<1>6. PoolInv'
  BY <1>1, <1>5 DEF Inv, PoolInv
<1>. QED
  BY <1>1, <1>2, <1>4, <1>6 DEF InQueue

\* What PASSEREN and VERHOGEN do to the semaphores.
LEMMA CallFacts ==
  ASSUME TypeOK, NEW s \in Sem, NEW op \in {0, 1}, NEW p \in Proc,
         S!Blocks(p, s, op) \/ S!Releases(s, op) \/ S!Passes(s, op)
  PROVE  /\ Call(p, op, value[s], queue[s], value'[s], queue'[s])
         /\ \A t \in Sem \ {s} : value'[t] = value[t] /\ queue'[t] = queue[t]
         /\ live' = live
         /\ value' \in [Sem -> {0, 1}] /\ DOMAIN queue' = Sem
         /\ queue' = [t \in Sem |-> queue'[t]]
<1>1. CASE S!Blocks(p, s, op)
  BY <1>1 DEF S!Blocks, Call, TypeOK
<1>2. CASE S!Releases(s, op)
  BY <1>2 DEF S!Releases, Call, TypeOK
<1>3. CASE S!Passes(s, op)
  BY <1>3 DEF S!Passes, Call, TypeOK
<1>. QED
  BY <1>1, <1>2, <1>3

\* A call of P.
LEMMA MutexCalled ==
  ASSUME Inv, NEW a \in Asid, Quiet(a), Alone(a), NEW s \in Mutexes, NEW l,
         P(a, s, l), ~Uses(a, s),
         \A t \in Mutexes : Uses(a, t)' <=> Uses(a, t) \/ t = s
  PROVE  /\ SemType' /\ MutexInv' /\ PoolInv'
         /\ \A b \in Asid : InQueue(b, queue[Pool])' => InQueue(b, queue[Pool]) \/ (b = a /\ s = Pool)
         /\ queue'[Master] = queue[Master] /\ value'[Master] = value[Master]
<1>1. s \in Sem /\ a \in Proc
  BY SemNames DEF Proc
<1>2. /\ Call(a, 0, value[s], queue[s], value'[s], queue'[s])
      /\ \A t \in Sem \ {s} : value'[t] = value[t] /\ queue'[t] = queue[t]
      /\ live' = live
      /\ value' \in [Sem -> {0, 1}]
      /\ queue' = [t \in Sem |-> queue'[t]]
  BY <1>1, CallFacts DEF P, Inv
<1>3. \A t \in Sem : value[t] \in {0, 1} /\ queue[t] \in Seq(Proc \X {0, 1})
  BY DEF Inv, TypeOK
<1>4. \A t \in Mutexes : Users(t) \in SUBSET Asid /\ Mutex(value[t], queue[t], Users(t))
  BY DEF Users, Inv, MutexInv
<1>5. Users(s)' = Users(s) \cup {a} /\ a \notin Users(s)
  BY OthersUse DEF Users
<1>6. /\ value'[s] \in {0, 1} /\ queue'[s] \in Seq(Proc \X {0, 1})
      /\ Mutex(value'[s], queue'[s], Users(s)')
      /\ Held(value[s], queue[s], Users(s)) => Held(value'[s], queue'[s], Users(s)')
      /\ \A b \in Asid \ {a} : InQueue(b, queue'[s]) => InQueue(b, queue[s])
  <2>1. /\ value[s] \in {0, 1} /\ queue[s] \in Seq(Proc \X {0, 1})
        /\ Users(s) \in SUBSET Asid /\ Mutex(value[s], queue[s], Users(s))
        /\ a \notin Users(s) /\ Call(a, 0, value[s], queue[s], value'[s], queue'[s])
    BY <1>1, <1>2, <1>3, <1>4, <1>5
  <2>2. /\ value'[s] \in {0, 1} /\ queue'[s] \in Seq(Proc \X {0, 1})
        /\ Mutex(value'[s], queue'[s], Users(s) \cup {a})
        /\ Held(value[s], queue[s], Users(s)) => Held(value'[s], queue'[s], Users(s) \cup {a})
        /\ \A b \in Asid \ {a} : InQueue(b, queue'[s]) => InQueue(b, queue[s])
    <3> DEFINE v == value[s] q == queue[s] U == Users(s) v2 == value'[s] q2 == queue'[s]
    <3>1. /\ v \in {0, 1} /\ q \in Seq(Proc \X {0, 1}) /\ U \in SUBSET Asid
          /\ Mutex(v, q, U) /\ Call(a, 0, v, q, v2, q2) /\ a \notin U
      BY <2>1
    <3> HIDE DEF v, q, U, v2, q2
    <3>2. v2 \in {0, 1} /\ q2 \in Seq(Proc \X {0, 1})
      BY <3>1, MutexAcquired
    <3>3. Mutex(v2, q2, U \cup {a})
      BY <3>1, MutexAcquired
    <3>4. Held(v, q, U) => Held(v2, q2, U \cup {a})
      BY <3>1, MutexAcquired
    <3>5. \A b \in Asid \ {a} : InQueue(b, q2) => InQueue(b, q)
      BY <3>1, MutexAcquired
    <3>. QED
      BY <3>2, <3>3, <3>4, <3>5 DEF v, q, U, v2, q2
  <2>. QED
    BY <1>5, <2>2
<1>7. ASSUME NEW t \in Mutexes, t # s
      PROVE  Mutex(value'[t], queue'[t], Users(t)') /\ Users(t)' = Users(t)
  <2>1. Users(t)' = Users(t)
    BY <1>7, OthersUse DEF Users
  <2>2. value'[t] = value[t] /\ queue'[t] = queue[t]
    BY <1>2, <1>7, SemNames
  <2>. QED
    BY <1>4, <2>1, <2>2
<1>8. SemType'
  BY <1>2, <1>3, <1>6 DEF SemType, Inv, TypeOK
<1>9. MutexInv'
  BY <1>6, <1>7 DEF MutexInv
<1>10. PoolInv'
  BY <1>2, <1>6, <1>7, SemNames DEF PoolInv, Inv
<1>11. \A b \in Asid : InQueue(b, queue'[Pool]) => InQueue(b, queue[Pool]) \/ (b = a /\ s = Pool)
  BY <1>2, <1>6, SemNames
<1>. QED
  BY <1>2, <1>8, <1>9, <1>10, <1>11, SemNames DEF InQueue

\* A call of V.
LEMMA MutexGivenBack ==
  ASSUME Inv, NEW a \in Asid, Quiet(a), Alone(a), NEW s \in Mutexes, NEW l,
         V(a, s, l), Uses(a, s),
         \A t \in Mutexes : Uses(a, t)' <=> Uses(a, t) /\ t # s
  PROVE  /\ SemType' /\ MutexInv' /\ PoolInv'
         /\ \A b \in Asid : InQueue(b, queue[Pool])' => InQueue(b, queue[Pool])
         /\ queue'[Master] = queue[Master] /\ value'[Master] = value[Master]
<1>1. s \in Sem /\ a \in Proc
  BY SemNames DEF Proc
<1>2. /\ Call(a, 1, value[s], queue[s], value'[s], queue'[s])
      /\ \A t \in Sem \ {s} : value'[t] = value[t] /\ queue'[t] = queue[t]
      /\ live' = live
      /\ value' \in [Sem -> {0, 1}]
      /\ queue' = [t \in Sem |-> queue'[t]]
  BY <1>1, CallFacts DEF V, Inv
<1>3. \A t \in Sem : value[t] \in {0, 1} /\ queue[t] \in Seq(Proc \X {0, 1})
  BY DEF Inv, TypeOK
<1>4. \A t \in Mutexes : Users(t) \in SUBSET Asid /\ Mutex(value[t], queue[t], Users(t))
  BY DEF Users, Inv, MutexInv
<1>5. Users(s)' = Users(s) \ {a} /\ a \in Users(s)
  BY OthersUse DEF Users
<1>6. /\ value'[s] \in {0, 1} /\ queue'[s] \in Seq(Proc \X {0, 1})
      /\ Mutex(value'[s], queue'[s], Users(s)')
      /\ Held(value'[s], queue'[s], Users(s)')
      /\ \A b \in Asid : InQueue(b, queue'[s]) => InQueue(b, queue[s])
  <2>1. /\ value[s] \in {0, 1} /\ queue[s] \in Seq(Proc \X {0, 1})
        /\ Users(s) \in SUBSET Asid /\ Mutex(value[s], queue[s], Users(s))
        /\ a \in Users(s) /\ ~InQueue(a, queue[s])
        /\ Call(a, 1, value[s], queue[s], value'[s], queue'[s])
    BY <1>1, <1>2, <1>3, <1>4, <1>5 DEF Quiet
  <2>2. /\ value'[s] \in {0, 1} /\ queue'[s] \in Seq(Proc \X {0, 1})
        /\ Mutex(value'[s], queue'[s], Users(s) \ {a})
        /\ Held(value'[s], queue'[s], Users(s) \ {a})
        /\ \A b \in Asid : InQueue(b, queue'[s]) => InQueue(b, queue[s])
    <3> DEFINE v == value[s] q == queue[s] U == Users(s) v2 == value'[s] q2 == queue'[s]
    <3>1. /\ v \in {0, 1} /\ q \in Seq(Proc \X {0, 1}) /\ U \in SUBSET Asid
          /\ Mutex(v, q, U) /\ Call(a, 1, v, q, v2, q2) /\ a \in U /\ ~InQueue(a, q)
      BY <2>1
    <3> HIDE DEF v, q, U, v2, q2
    <3>2. /\ v2 \in {0, 1} /\ q2 \in Seq(Proc \X {0, 1})
          /\ Mutex(v2, q2, U \ {a})
          /\ Held(v2, q2, U \ {a})
          /\ \A b \in Asid : InQueue(b, q2) => InQueue(b, q)
      BY <3>1, MutexReleased
    <3>. QED
      BY <3>2 DEF v, q, U, v2, q2
  <2>. QED
    BY <1>5, <2>2
<1>7. ASSUME NEW t \in Mutexes, t # s
      PROVE  Mutex(value'[t], queue'[t], Users(t)') /\ Users(t)' = Users(t)
  <2>1. Users(t)' = Users(t)
    BY <1>7, OthersUse DEF Users
  <2>2. value'[t] = value[t] /\ queue'[t] = queue[t]
    BY <1>2, <1>7, SemNames
  <2>. QED
    BY <1>4, <2>1, <2>2
<1>8. SemType'
  BY <1>2, <1>3, <1>6 DEF SemType, Inv, TypeOK
<1>9. MutexInv'
  BY <1>6, <1>7 DEF MutexInv
<1>10. PoolInv'
  BY <1>2, <1>6, <1>7, SemNames DEF PoolInv, Inv
<1>11. \A b \in Asid : InQueue(b, queue'[Pool]) => InQueue(b, queue[Pool])
  BY <1>2, <1>6, SemNames
<1>. QED
  BY <1>2, <1>8, <1>9, <1>10, <1>11, SemNames DEF InQueue

-----------------------------------------------------------------------------
\* The devices that are remembered, by a step that remembers the same ones.
LEMMA SuppKept ==
  ASSUME Inv, NEW a \in Asid, Alone(a), suppDevSemsAsid' = suppDevSemsAsid,
         Excused(a) => Excused(a)' \/ suppDevSemsAsid[a] = NULL,
         \A b \in Asid : Writes(a, b) => Writes(a, b)'
  PROVE  SuppInv'
<1>1. \A b \in Asid \ {a} : Excused(b)' <=> Excused(b)
  BY DEF Alone, Excused, Proc
<1>2. \A b, c \in Asid : Writes(b, c) => Writes(b, c)'
  BY DEF Alone, Writes, Proc
<1>. QED
  BY <1>1, <1>2 DEF SuppInv, Inv

\* ... by one that forgets the device of c, on which nobody else relies.
LEMMA SuppCleared ==
  ASSUME Inv, NEW a \in Asid, Alone(a), NEW c \in Asid,
         suppDevSemsAsid' = [suppDevSemsAsid EXCEPT ![c] = NULL],
         a # c => (Excused(a) => Excused(a)'),
         \A b \in Asid \ {c} : Writes(a, b) => Writes(a, b)'
  PROVE  SuppInv'
<1>1. \A b \in Asid \ {a} : Excused(b)' <=> Excused(b)
  BY DEF Alone, Excused, Proc
<1>2. \A b \in Asid, d \in Asid \ {c} : Writes(b, d) => Writes(b, d)'
  BY DEF Alone, Writes, Proc
<1>3. suppDevSemsAsid'[c] = NULL /\ \A b \in Asid \ {c} : suppDevSemsAsid'[b] = suppDevSemsAsid[b]
  BY DEF Inv, TypeOK
<1>. QED
  BY <1>1, <1>2, <1>3 DEF SuppInv, Inv

\* ... and by one that remembers the device of c.
LEMMA SuppSet ==
  ASSUME Inv, NEW a \in Asid, Alone(a), NEW c \in Asid, NEW d,
         suppDevSemsAsid' = [suppDevSemsAsid EXCEPT ![c] = d],
         Excused(a) => Excused(a)',
         (a = c /\ Excused(a)') \/ Writes(a, c)',
         \A b \in Asid : Writes(a, b) => Writes(a, b)'
  PROVE  SuppInv'
<1>1. \A b \in Asid \ {a} : Excused(b)' <=> Excused(b)
  BY DEF Alone, Excused, Proc
<1>2. \A b, e \in Asid : Writes(b, e) => Writes(b, e)'
  BY DEF Alone, Writes, Proc
<1>3. \A b \in Asid \ {c} : suppDevSemsAsid'[b] = suppDevSemsAsid[b]
  BY DEF Inv, TypeOK
<1>. QED
  BY <1>1, <1>2, <1>3 DEF SuppInv, Inv

-----------------------------------------------------------------------------
\* The holder of the pool, by a step that neither begins nor ends to hold it.
LEMMA MarkKept ==
  ASSUME Inv, NEW a \in Asid, Alone(a), asidSemSwapPool' = asidSemSwapPool,
         at[a] \in Marked <=> at'[a] \in Marked,
         \A b \in Asid : InQueue(b, queue[Pool])' =>
           InQueue(b, queue[Pool]) \/ (b = a /\ at'[a] \notin Marked)
  PROVE  MarkInv'
BY DEF MarkInv, Inv, Alone, Proc

LEMMA MarkedUsesPool ==
  ASSUME NEW a \in Asid, at[a] \in Marked
  PROVE  at[a] \in InPool
BY DEF Marked, InPool

LEMMA OneMarked ==
  ASSUME Inv, NEW a \in Asid, NEW b \in Asid, Quiet(a), at[a] \in InPool, at[b] \in Marked
  PROVE  a = b
<1>1. a \in Users(Pool) /\ b \in Users(Pool)
  BY MarkedUsesPool DEF Users, Uses
<1>2. ~InQueue(a, queue[Pool]) /\ ~InQueue(b, queue[Pool])
  BY SemNames DEF Quiet, Inv, MarkInv
<1>3. Mutex(value[Pool], queue[Pool], Users(Pool))
  BY SemNames DEF Inv, MutexInv
<1>. QED
  BY <1>1, <1>2, <1>3 DEF Mutex, Has

\* ... by the one that begins, ...
LEMMA MarkSet ==
  ASSUME Inv, NEW a \in Asid, Alone(a), Quiet(a), asidSemSwapPool' = a,
         at[a] \in InPool, at'[a] \in Marked, queue' = queue
  PROVE  MarkInv'
<1>1. \A b \in Asid \ {a} : at[b] \notin Marked
  BY OneMarked
<1>2. \A b \in Asid \ {a} : at'[b] = at[b]
  BY DEF Alone, Proc
<1>3. ~InQueue(a, queue'[Pool])
  BY SemNames DEF Quiet
<1>. QED
  BY <1>1, <1>2, <1>3 DEF MarkInv, Inv

\* ... and by the one that ends.
LEMMA MarkCleared ==
  ASSUME Inv, NEW a \in Asid, Alone(a), asidSemSwapPool' = NULL,
         at[a] \in Marked, at'[a] \notin Marked, queue' = queue
  PROVE  MarkInv'
<1>1. asidSemSwapPool = a
  BY DEF MarkInv, Inv
<1>2. \A b \in Asid \ {a} : at[b] \notin Marked
  BY <1>1 DEF MarkInv, Inv
<1>3. \A b \in Asid \ {a} : at'[b] = at[b]
  BY DEF Alone, Proc
<1>. QED
  BY <1>2, <1>3 DEF MarkInv, Inv

-----------------------------------------------------------------------------
LEMMA LocalKept ==
  ASSUME Inv, NEW a \in Asid, Alone(a), sw_asid' = sw_asid, Local(a)'
  PROVE  LocalInv'
BY DEF Alone, Local, LocalInv, Inv, Proc

\* The test process does not see a step that is not the V on masterSemaphore.
LEMMA MasterKept ==
  ASSUME Inv, NEW a \in Asid, Alone(a),
         at[a] # <<"killUproc", "end">>, at'[a] # <<"killUproc", "end">>,
         queue'[Master] = queue[Master], value'[Master] = value[Master]
  PROVE  MasterInv'
<1>1. at'[Test] = at[Test] /\ awaited' = awaited
  BY DEF Alone, Proc
<1>2. Ended' = Ended
  BY DEF Alone, Proc, Ended
<1>. QED
  BY <1>1, <1>2 DEF MasterInv, Inv

LEMMA Assemble ==
  ASSUME Inv, NEW a \in Asid, Alone(a),
         SemType', RestType', MutexInv', PoolInv', MarkInv', LocalInv', SuppInv', MasterInv'
  PROVE  Inv'
<1>1. at'[Test] \in AtTest /\ \A b \in Asid : at'[b] \in Labels
  BY DEF Alone, Proc, Inv, TypeOK, AtTest
<1>2. awaited' \in 0 .. Cardinality(Asid)
  BY DEF Alone, Inv, TypeOK
<1>3. TypeOK'
  BY <1>1, <1>2 DEF TypeOK, SemType, RestType, Alone, AtTest
<1>4. AtType'
  BY DEF AtType, Alone
<1>. QED
  BY <1>3, <1>4 DEF Inv

-----------------------------------------------------------------------------
(* The kinds of steps of a U-proc                                          *)

Goes(a) ==
  /\ Alone(a) /\ Quiet(a) /\ Local(a)'
  /\ at[a] # <<"killUproc", "end">> /\ at'[a] # <<"killUproc", "end">>
SameUses(a) == \A s \in Mutexes : Uses(a, s)' <=> Uses(a, s)
SameMark(a) == at'[a] \in Marked <=> at[a] \in Marked
SameSupp(a) == (Excused(a) => Excused(a)') /\ \A b \in Asid : Writes(a, b) => Writes(a, b)'

\* A step on variables that nobody else reads.
LEMMA PrivateStep ==
  ASSUME Inv, NEW a \in Asid, Goes(a), SameMark(a),
         \A s \in Mutexes : Uses(a, s)' => Uses(a, s),
         Uses(a, Pool) => Uses(a, Pool)',
         Excused(a) => Excused(a)' \/ suppDevSemsAsid[a] = NULL,
         \A b \in Asid : Writes(a, b) => Writes(a, b)',
         UNCHANGED <<sems, marks, sw_asid>>
  PROVE  Inv'
<1>1. /\ SemType' /\ MutexInv' /\ PoolInv'
      /\ \A b \in Asid : InQueue(b, queue[Pool])' => InQueue(b, queue[Pool])
      /\ queue'[Master] = queue[Master] /\ value'[Master] = value[Master]
  BY MutexQuiet DEF Goes
<1>2. RestType'
  BY DEF marks, RestType, Inv, TypeOK
<1>3. MarkInv' /\ LocalInv' /\ SuppInv'
  BY <1>1, MarkKept, LocalKept, SuppKept DEF Goes, SameMark, marks
<1>4. MasterInv'
  BY <1>1, MasterKept DEF Goes
<1>. QED
  BY <1>1, <1>2, <1>3, <1>4, Assemble DEF Goes

\* P on a mutex.
LEMMA AcquireStep ==
  ASSUME Inv, NEW a \in Asid, Goes(a), SameMark(a), SameSupp(a), NEW s \in Mutexes, NEW l,
         P(a, s, l), ~Uses(a, s),
         \A t \in Mutexes : Uses(a, t)' <=> Uses(a, t) \/ t = s,
         s = Pool => at'[a] \notin Marked,
         UNCHANGED <<marks, sw_asid>>
  PROVE  Inv'
<1>1. /\ SemType' /\ MutexInv' /\ PoolInv'
      /\ \A b \in Asid : InQueue(b, queue[Pool])' => InQueue(b, queue[Pool]) \/ (b = a /\ s = Pool)
      /\ queue'[Master] = queue[Master] /\ value'[Master] = value[Master]
  BY MutexCalled DEF Goes
<1>2. RestType'
  BY DEF marks, RestType, Inv, TypeOK
<1>3. MarkInv' /\ LocalInv' /\ SuppInv'
  BY <1>1, MarkKept, LocalKept, SuppKept DEF Goes, SameMark, SameSupp, marks
<1>4. MasterInv'
  BY <1>1, MasterKept DEF Goes
<1>. QED
  BY <1>1, <1>2, <1>3, <1>4, Assemble DEF Goes

\* V on a mutex.
LEMMA ReleaseStep ==
  ASSUME Inv, NEW a \in Asid, Goes(a), SameMark(a), SameSupp(a), NEW s \in Mutexes, NEW l,
         V(a, s, l), Uses(a, s),
         \A t \in Mutexes : Uses(a, t)' <=> Uses(a, t) /\ t # s,
         UNCHANGED <<marks, sw_asid>>
  PROVE  Inv'
<1>1. /\ SemType' /\ MutexInv' /\ PoolInv'
      /\ \A b \in Asid : InQueue(b, queue[Pool])' => InQueue(b, queue[Pool])
      /\ queue'[Master] = queue[Master] /\ value'[Master] = value[Master]
  BY MutexGivenBack DEF Goes
<1>2. RestType'
  BY DEF marks, RestType, Inv, TypeOK
<1>3. MarkInv' /\ LocalInv' /\ SuppInv'
  BY <1>1, MarkKept, LocalKept, SuppKept DEF Goes, SameMark, SameSupp, marks
<1>4. MasterInv'
  BY <1>1, MasterKept DEF Goes
<1>. QED
  BY <1>1, <1>2, <1>3, <1>4, Assemble DEF Goes

\* A mark is made or deleted.
LEMMA MarkStep ==
  ASSUME Inv, NEW a \in Asid, Goes(a), SameUses(a), UNCHANGED <<sems, sw_asid>>,
         RestType', MarkInv', SuppInv'
  PROVE  Inv'
<1>1. /\ SemType' /\ MutexInv' /\ PoolInv'
      /\ queue'[Master] = queue[Master] /\ value'[Master] = value[Master]
  BY MutexQuiet, SemNames DEF Goes, SameUses
<1>2. LocalInv' /\ MasterInv'
  BY <1>1, LocalKept, MasterKept DEF Goes
<1>. QED
  BY <1>1, <1>2, Assemble DEF Goes

\* The device of c is remembered, or forgotten.
LEMMA SuppStep ==
  ASSUME Inv, NEW a \in Asid, Goes(a), SameUses(a), SameMark(a), UNCHANGED <<sems, sw_asid>>,
         UNCHANGED asidSemSwapPool, NEW c \in Asid, NEW d \in Device \cup {NULL},
         suppDevSemsAsid' = [suppDevSemsAsid EXCEPT ![c] = d], SuppInv'
  PROVE  Inv'
<1>1. RestType'
  BY DEF RestType, Inv, TypeOK
<1>2. MarkInv'
  BY MarkKept DEF Goes, SameMark, sems
<1>. QED
  BY <1>1, <1>2, MarkStep

\* The pool is marked as taken, or as free.
LEMMA PoolMarkStep ==
  ASSUME Inv, NEW a \in Asid, Goes(a), SameUses(a), SameSupp(a), UNCHANGED <<sems, sw_asid>>,
         UNCHANGED suppDevSemsAsid,
         \/ asidSemSwapPool' = a /\ at[a] \in InPool /\ at'[a] \in Marked
         \/ asidSemSwapPool' = NULL /\ at[a] \in Marked /\ at'[a] \notin Marked
  PROVE  Inv'
<1>1. RestType'
  BY DEF RestType, Inv, TypeOK
<1>2. MarkInv'
  BY MarkSet, MarkCleared DEF Goes, sems
<1>3. SuppInv'
  BY SuppKept DEF Goes, SameSupp
<1>. QED
  BY <1>1, <1>2, <1>3, MarkStep

-----------------------------------------------------------------------------
(* The steps of a U-proc                                                   *)

\* It goes from l to m, with the same locals and frames.
Stepped(a, l, m) ==
  /\ at[a] = l /\ at'[a] = m /\ Alone(a) /\ Quiet(a) /\ Local(a)
  /\ dev'[a] = dev[a] /\ target'[a] = target[a] /\ frame'[a] = frame[a]
  /\ sw_asid' = sw_asid

LEMMA GotoFacts ==
  ASSUME Inv, NEW a \in Asid, NEW l \in Labels, Goto(a, l)
  PROVE  /\ at' \in [Proc -> Labels \cup AtTest] /\ at'[a] = l
         /\ \A p \in Proc \ {a} : at'[p] = at[p]
BY DEF Goto, Inv, AtType, Proc

LEMMA SteppedFacts ==
  ASSUME Inv, NEW a \in Asid, NEW proc, NEW step, NEW m \in Labels,
         At(a, proc, step), Goto(a, m), UNCHANGED <<locals, sw_asid, awaited>>
  PROVE  Stepped(a, <<proc, step>>, m)
<1>1. at[a] = <<proc, step>> /\ Quiet(a)
  BY QuietMeans DEF At
<1>2. Alone(a) /\ at'[a] = m
  BY GotoFacts DEF Alone, locals, Inv, TypeOK
<1>3. Local(a)
  BY DEF Inv, LocalInv
<1>. QED
  BY <1>1, <1>2, <1>3 DEF Stepped, locals

LEMMA EndOfMessageKeeps ==
  ASSUME Inv, NEW a \in Asid, EndOfMessage(a)
  PROVE  Inv'
<1>1. Stepped(a, <<"call", "in">>, <<"call", "clear">>)
  BY SteppedFacts DEF EndOfMessage, Labels
<1>2. Goes(a)
  BY <1>1 DEF Stepped, Goes, Local, User
<1>3. SameUses(a) /\ SameMark(a) /\ SameSupp(a)
  BY <1>1 DEF Stepped, SameUses, SameMark, SameSupp, Uses, InPool, InFlash, Marked, Excused, Writes
<1>. QED
  BY <1>2, <1>3, PrivateStep, SemNames DEF EndOfMessage, SameUses, SameSupp

\* acquireDevice and releaseDevice around a message.
LEMMA UseDeviceKeeps ==
  ASSUME Inv, NEW a \in Asid, UseDevice(a)
  PROVE  Inv'
<1>. USE DEF Stepped, User
<1>1. Local(a)
  BY DEF Inv, LocalInv
<1>2. CASE /\ At(a, "call", "P") /\ P(a, dev[a], <<"call", "set">>)
           /\ UNCHANGED <<marks, locals, sw_asid, awaited>>
  <2>1. Stepped(a, <<"call", "P">>, <<"call", "set">>)
    BY <1>2, SteppedFacts DEF P, Labels
  <2>2. Goes(a) /\ SameMark(a) /\ SameSupp(a)
    BY <2>1 DEF Goes, Local, SameMark, SameSupp, Marked, Excused, Writes
  <2>3. dev[a] \in Mutexes /\ dev[a] # Pool /\ dev[a] # NULL
    BY <2>1, SemNames DEF Local, Mutexes
  <2>4. ~Uses(a, dev[a]) /\ \A t \in Mutexes : Uses(a, t)' <=> Uses(a, t) \/ t = dev[a]
    BY <2>1, <2>3 DEF Uses, InPool, InFlash
  <2>. QED
    BY <1>2, <2>2, <2>3, <2>4, AcquireStep
<1>3. CASE /\ At(a, "call", "set") /\ Goto(a, <<"call", "in">>)
           /\ suppDevSemsAsid' = [suppDevSemsAsid EXCEPT ![a] = dev[a]]
           /\ UNCHANGED <<sems, asidSemSwapPool, locals, sw_asid, awaited>>
  <2>1. Stepped(a, <<"call", "set">>, <<"call", "in">>)
    BY <1>3, SteppedFacts DEF Labels
  <2>2. Goes(a) /\ SameMark(a) /\ SameSupp(a) /\ SameUses(a) /\ Excused(a)'
    BY <2>1 DEF Goes, Local, SameMark, SameSupp, SameUses, Marked, Excused, Writes,
                Uses, InPool, InFlash
  <2>3. SuppInv'
    BY <1>3, <2>1, <2>2, SuppSet DEF SameSupp
  <2>4. dev[a] \in Device \cup {NULL}
    BY DEF Inv, TypeOK
  <2>. QED
    BY <1>3, <2>2, <2>3, <2>4, SuppStep
<1>4. CASE /\ At(a, "call", "clear") /\ Goto(a, <<"call", "V">>)
           /\ suppDevSemsAsid' = [suppDevSemsAsid EXCEPT ![a] = NULL]
           /\ UNCHANGED <<sems, asidSemSwapPool, locals, sw_asid, awaited>>
  <2>1. Stepped(a, <<"call", "clear">>, <<"call", "V">>)
    BY <1>4, SteppedFacts DEF Labels
  <2>2. Goes(a) /\ SameMark(a) /\ SameUses(a) /\ \A b \in Asid : Writes(a, b) => Writes(a, b)'
    BY <2>1 DEF Goes, Local, SameMark, SameUses, Marked, Writes, Uses, InPool, InFlash
  <2>3. SuppInv'
    BY <1>4, <2>1, <2>2, SuppCleared
  <2>. QED
    BY <1>4, <2>2, <2>3, SuppStep
<1>5. CASE /\ At(a, "call", "V") /\ V(a, dev[a], User)
           /\ dev' = [dev EXCEPT ![a] = NULL]
           /\ UNCHANGED <<marks, target, frame, sw_asid, awaited>>
  <2>1. at[a] = <<"call", "V">> /\ Quiet(a) /\ Goto(a, User) /\ User \in Labels
    BY <1>5, QuietMeans DEF At, V, Labels
  <2>2. at' \in [Proc -> Labels \cup AtTest] /\ at'[a] = User /\ \A p \in Proc \ {a} : at'[p] = at[p]
    BY <2>1, GotoFacts
  <2>3. Alone(a) /\ dev'[a] = NULL /\ target'[a] = target[a]
    BY <1>5, <2>1, <2>2 DEF Alone, Inv, TypeOK
  <2>4. Goes(a)
    BY <1>1, <1>5, <2>1, <2>2, <2>3 DEF Goes, Local
  <2>5. SameMark(a) /\ SameSupp(a)
    BY <2>1, <2>2, <2>3 DEF SameMark, SameSupp, Marked, Excused, Writes
  <2>6. dev[a] \in Mutexes /\ dev[a] # Pool /\ dev[a] # NULL
    BY <1>1, <2>1, SemNames DEF Local, Mutexes
  <2>7. Uses(a, dev[a]) /\ \A t \in Mutexes : Uses(a, t)' <=> Uses(a, t) /\ t # dev[a]
    BY <2>1, <2>2, <2>3, <2>6 DEF Uses, InPool, InFlash
  <2>. QED
    BY <1>5, <2>4, <2>5, <2>6, <2>7, ReleaseStep
<1>6. at[a] = <<"call", "clear">> => at[a] # <<"call", "V">>
  OBVIOUS
<1>7. dev \in [Asid -> Device \cup {NULL}]
  BY DEF Inv, TypeOK
<1>. QED
  BY <1>2, <1>3, <1>4, <1>5, <1>6, <1>7 DEF UseDevice, AcquireDevice, ReleaseDevice, locals, At

\* acquireSwapPoolTable, by the pager and by the end of a U-proc.
LEMMA AcquirePoolKeeps ==
  ASSUME Inv, NEW a \in Asid, NEW proc \in {"pager", "killUproc"}, NEW c,
         AcquireSwapPoolTable(a, proc, c), proc = "pager" => c = a,
         proc = "killUproc" => c = target[a], UNCHANGED <<locals, sw_asid, awaited>>
  PROVE  Inv'
<1>. USE DEF Stepped
<1>1. CASE At(a, proc, "P") /\ P(a, Pool, <<proc, "set">>) /\ UNCHANGED marks
  <2>1. Stepped(a, <<proc, "P">>, <<proc, "set">>)
    BY <1>1, SteppedFacts DEF P, Labels
  <2>2. Goes(a) /\ SameMark(a) /\ SameSupp(a) /\ at'[a] \notin Marked
    BY <2>1 DEF Goes, Local, User, SameMark, SameSupp, Marked, Excused, Writes
  <2>3. ~Uses(a, Pool)
    BY <2>1, SemNames DEF Uses, InPool, InFlash, Local
  <2>4. \A t \in Mutexes : Uses(a, t)' <=> Uses(a, t) \/ t = Pool
    BY <2>1 DEF Uses, InPool, InFlash
  <2>. QED
    BY <1>1, <2>2, <2>3, <2>4, AcquireStep, SemNames
<1>2. CASE /\ At(a, proc, "set") /\ Goto(a, <<proc, "in">>)
           /\ asidSemSwapPool' = c /\ UNCHANGED <<sems, suppDevSemsAsid>>
  <2>1. Stepped(a, <<proc, "set">>, <<proc, "in">>)
    BY <1>2, SteppedFacts DEF Labels
  <2>2. Goes(a) /\ SameSupp(a) /\ at[a] \in InPool /\ at'[a] \in Marked
    BY <2>1 DEF Goes, Local, User, SameSupp, Marked, InPool, Excused, Writes
  <2>3. SameUses(a)
    BY <2>1 DEF SameUses, Uses, InPool, InFlash
  <2>4. c = a
    BY <2>1 DEF Local
  <2>. QED
    BY <1>2, <2>2, <2>3, <2>4, PoolMarkStep
<1>. QED
  BY <1>1, <1>2 DEF AcquireSwapPoolTable

\* releaseSwapPoolTable, when the pager returns, after a flash error, and at
\* the end of a U-proc.
LEMMA ReleasePoolKeeps ==
  ASSUME Inv, NEW a \in Asid, NEW proc \in {"pager", "error", "killUproc"}, NEW m,
         ReleaseSwapPoolTable(a, proc, m), UNCHANGED <<locals, sw_asid, awaited>>,
         proc = "pager" => m = Interrupted(a),
         proc = "error" => m = <<"killUproc", "test">>,
         proc = "killUproc" => m = <<"killUproc", "device">>
  PROVE  Inv'
<1>. USE DEF Stepped, User
<1>1. CASE /\ At(a, proc, "clear") /\ Goto(a, <<proc, "V">>)
           /\ asidSemSwapPool' = NULL /\ UNCHANGED <<sems, suppDevSemsAsid>>
  <2>1. Stepped(a, <<proc, "clear">>, <<proc, "V">>)
    BY <1>1, SteppedFacts DEF Labels
  <2>2. Goes(a) /\ SameSupp(a) /\ at[a] \in Marked /\ at'[a] \notin Marked
    BY <2>1 DEF Goes, Local, SameSupp, Marked, Excused, Writes
  <2>3. SameUses(a)
    BY <2>1 DEF SameUses, Uses, InPool, InFlash
  <2>. QED
    BY <1>1, <2>2, <2>3, PoolMarkStep
<1>2. CASE At(a, proc, "V") /\ V(a, Pool, m) /\ UNCHANGED marks
  <2>1. m \in {User, <<"call", "in">>, <<"killUproc", "test">>, <<"killUproc", "device">>}
    BY DEF Interrupted
  <2>2. Stepped(a, <<proc, "V">>, m)
    BY <1>2, <2>1, SteppedFacts DEF V, Labels
  <2>3. \/ proc = "pager" /\ dev[a] = NULL /\ m = User
        \/ proc = "pager" /\ dev[a] # NULL /\ m = <<"call", "in">>
        \/ proc = "error" /\ m = <<"killUproc", "test">>
        \/ proc = "killUproc" /\ m = <<"killUproc", "device">>
    BY DEF Interrupted
  <2>4. Goes(a)
    BY <2>2, <2>3 DEF Goes, Local
  <2>5. SameMark(a) /\ SameSupp(a)
    BY <2>2, <2>3 DEF SameMark, SameSupp, Marked, Excused, Writes
  <2>6. Uses(a, Pool) /\ ~Uses(a, Pool)'
    BY <2>2, <2>3, SemNames DEF Uses, InPool, InFlash, Local
  <2>7. \A t \in Mutexes \ {Pool} : Uses(a, t)' <=> Uses(a, t)
    BY <2>2, <2>3 DEF Uses, InPool, InFlash
  <2>8. \A t \in Mutexes : Uses(a, t)' <=> Uses(a, t) /\ t # Pool
    BY <2>6, <2>7, SemNames
  <2>. QED
    BY <1>2, <2>4, <2>5, <2>6, <2>8, ReleaseStep, SemNames
<1>. QED
  BY <1>1, <1>2 DEF ReleaseSwapPoolTable

\* A page fault begins: the pager returns to where it was called.
LEMMA PageFaultKeeps ==
  ASSUME Inv, NEW a \in Asid, PageFault(a)
  PROVE  Inv'
<1>. USE DEF Stepped, User
<1>1. PICK l \in {User, <<"call", "in">>} : Stepped(a, l, <<"pager", "P">>)
  BY SteppedFacts DEF PageFault, Labels
<1>2. Goes(a) /\ SameMark(a) /\ SameSupp(a)
  BY <1>1 DEF Goes, Local, SameMark, SameSupp, Marked, Excused, Writes
<1>3. SameUses(a)
  BY <1>1 DEF SameUses, Uses, InPool, InFlash
<1>. QED
  BY <1>2, <1>3, PrivateStep, SemNames DEF PageFault, SameUses, SameSupp

\* flashRW on the device of the asid that it gets.
LEMMA FlashNames ==
  ASSUME Inv, NEW a \in Asid, at[a][1] \in {"write", "read", "failed"}
  PROVE  /\ target[a] \in Asid
         /\ <<Flash, target[a]>> \in Mutexes /\ <<Flash, target[a]>> # Pool
         /\ <<Flash, target[a]>> \in Device /\ <<Flash, target[a]>> # dev[a]
<1>1. Local(a)
  BY DEF Inv, LocalInv
<1>2. target[a] \in Asid
  BY <1>1 DEF Local
<1>. QED
  BY <1>1, <1>2, SemNames DEF Local, Mutexes

LEMMA FlashAcquireKeeps ==
  ASSUME Inv, NEW a \in Asid, NEW rw \in {"write", "read"},
         AcquireDevice(a, rw, target[a], <<Flash, target[a]>>),
         UNCHANGED <<locals, sw_asid, awaited>>
  PROVE  Inv'
<1>. USE DEF Stepped
<1> DEFINE d == <<Flash, target[a]>>
<1>1. CASE At(a, rw, "P") /\ P(a, d, <<rw, "set">>) /\ UNCHANGED marks
  <2>1. Stepped(a, <<rw, "P">>, <<rw, "set">>)
    BY <1>1, SteppedFacts DEF P, Labels
  <2>2. Goes(a) /\ SameMark(a) /\ SameSupp(a)
    BY <2>1 DEF Goes, Local, User, SameMark, SameSupp, Marked, Excused, Writes
  <2>3. d \in Mutexes /\ d # Pool /\ d # dev[a]
    BY <2>1, FlashNames
  <2>4. ~Uses(a, d) /\ \A t \in Mutexes : Uses(a, t)' <=> Uses(a, t) \/ t = d
    BY <2>1, <2>3 DEF Uses, InPool, InFlash
  <2>. QED
    BY <1>1, <2>2, <2>3, <2>4, AcquireStep
<1>2. CASE /\ At(a, rw, "set") /\ Goto(a, <<rw, "in">>)
           /\ suppDevSemsAsid' = [suppDevSemsAsid EXCEPT ![target[a]] = d]
           /\ UNCHANGED <<sems, asidSemSwapPool>>
  <2>1. Stepped(a, <<rw, "set">>, <<rw, "in">>)
    BY <1>2, SteppedFacts DEF Labels
  <2>2. Goes(a) /\ SameMark(a) /\ SameSupp(a) /\ SameUses(a)
    BY <2>1 DEF Goes, Local, User, SameMark, SameSupp, SameUses, Marked, Excused, Writes,
                Uses, InPool, InFlash
  <2>3. (a = target[a] /\ Excused(a)') \/ Writes(a, target[a])'
    BY <2>1 DEF Local, Excused, Writes
  <2>4. target[a] \in Asid /\ d \in Device
    BY <2>1, FlashNames
  <2>5. SuppInv'
    BY <1>2, <2>1, <2>2, <2>3, <2>4, SuppSet DEF SameSupp
  <2>. QED
    BY <1>2, <2>2, <2>4, <2>5, SuppStep
<1>. QED
  BY <1>1, <1>2 DEF AcquireDevice

LEMMA FlashReleaseKeeps ==
  ASSUME Inv, NEW a \in Asid, NEW rw \in {"write", "read", "failed"}, NEW m,
         ReleaseDevice(a, rw, target[a], <<Flash, target[a]>>, m),
         rw = "write" => m = <<"pager", "read">>,
         rw = "read" => m = <<"pager", "install">>,
         rw = "failed" => m = <<"error", "clear">>,
         UNCHANGED <<locals, sw_asid, awaited>>
  PROVE  Inv'
<1>. USE DEF Stepped
<1> DEFINE d == <<Flash, target[a]>>
<1>1. CASE /\ At(a, rw, "clear") /\ Goto(a, <<rw, "V">>)
           /\ suppDevSemsAsid' = [suppDevSemsAsid EXCEPT ![target[a]] = NULL]
           /\ UNCHANGED <<sems, asidSemSwapPool>>
  <2>1. Stepped(a, <<rw, "clear">>, <<rw, "V">>)
    BY <1>1, SteppedFacts DEF Labels
  <2>2. Goes(a) /\ SameMark(a) /\ SameUses(a)
    BY <2>1 DEF Goes, Local, User, SameMark, SameUses, Marked, Uses, InPool, InFlash
  <2>3. a # target[a] => (Excused(a) => Excused(a)')
    BY <2>1 DEF Local, Excused
  <2>4. target[a] \in Asid
    BY <2>1, FlashNames
  <2>5. \A b \in Asid \ {target[a]} : Writes(a, b) => Writes(a, b)'
    BY DEF Writes
  <2>6. SuppInv'
    BY <1>1, <2>1, <2>3, <2>4, <2>5, SuppCleared
  <2>. QED
    BY <1>1, <2>2, <2>4, <2>6, SuppStep
<1>2. CASE At(a, rw, "V") /\ V(a, d, m) /\ UNCHANGED marks
  <2>1. m \in Labels
    BY DEF Labels
  <2>2. Stepped(a, <<rw, "V">>, m)
    BY <1>2, <2>1, SteppedFacts DEF V
  <2>3. Goes(a) /\ SameMark(a) /\ SameSupp(a)
    BY <2>2 DEF Goes, Local, User, SameMark, SameSupp, Marked, Excused, Writes
  <2>4. d \in Mutexes /\ d # Pool /\ d # dev[a]
    BY <2>2, FlashNames
  <2>5. Uses(a, d) /\ \A t \in Mutexes : Uses(a, t)' <=> Uses(a, t) /\ t # d
    BY <2>2, <2>4 DEF Uses, InPool, InFlash
  <2>. QED
    BY <1>2, <2>3, <2>4, <2>5, ReleaseStep
<1>. QED
  BY <1>1, <1>2 DEF ReleaseDevice

\* Only reads fail.
LEMMA TransferKeeps ==
  ASSUME Inv, "write" \notin Faults, NEW a \in Asid, NEW rw \in {"write", "read"}, Transfer(a, rw)
  PROVE  Inv'
<1>. USE DEF Stepped
<1>1. PICK m \in {<<rw, "clear">>, <<"failed", "clear">>} :
        Stepped(a, <<rw, "in">>, m) /\ (rw = "write" => m = <<rw, "clear">>)
  BY SteppedFacts DEF Transfer, Labels
<1>2. Goes(a) /\ SameMark(a) /\ SameSupp(a)
  BY <1>1 DEF Goes, Local, User, SameMark, SameSupp, Marked, Excused, Writes
<1>3. SameUses(a)
  BY <1>1 DEF SameUses, Uses, InPool, InFlash
<1>. QED
  BY <1>2, <1>3, PrivateStep, SemNames DEF Transfer, SameUses, SameSupp

LEMMA FlashRWKeeps ==
  ASSUME Inv, "write" \notin Faults, NEW a \in Asid, FlashRW(a)
  PROVE  Inv'
<1>1. CASE \E rw \in {"write", "read"} : Transfer(a, rw)
  BY <1>1, TransferKeeps
<1>2. CASE /\ \E rw \in {"write", "read"} :
                AcquireDevice(a, rw, target[a], <<Flash, target[a]>>)
           /\ UNCHANGED <<locals, sw_asid, awaited>>
  BY <1>2, FlashAcquireKeeps
<1>3. CASE /\ \/ ReleaseDevice(a, "write", target[a], <<Flash, target[a]>>, <<"pager", "read">>)
              \/ ReleaseDevice(a, "read", target[a], <<Flash, target[a]>>, <<"pager", "install">>)
              \/ ReleaseDevice(a, "failed", target[a], <<Flash, target[a]>>, <<"error", "clear">>)
           /\ UNCHANGED <<locals, sw_asid, awaited>>
  BY <1>3, FlashReleaseKeeps
<1>. QED
  BY <1>1, <1>2, <1>3 DEF FlashRW

LEMMA CallDeviceKeeps ==
  ASSUME Inv, NEW a \in Asid, CallDevice(a)
  PROVE  Inv'
<1>1. PICK l \in Line : dev' = [dev EXCEPT ![a] = <<l, a>>]
  BY DEF CallDevice
<1>2. at[a] = User /\ Quiet(a) /\ Local(a) /\ Goto(a, <<"call", "P">>) /\ <<"call", "P">> \in Labels
  BY QuietMeans DEF CallDevice, At, User, Labels, Inv, LocalInv
<1>3. at'[a] = <<"call", "P">> /\ Alone(a) /\ dev'[a] = <<l, a>>
  BY <1>1, <1>2, GotoFacts, SemNames DEF CallDevice, Alone, Inv, TypeOK
<1>4. <<l, a>> # NULL
  BY SemNames
<1>5. Goes(a)
  BY <1>2, <1>3, <1>4 DEF Goes, Local, User
<1>6. SameMark(a) /\ SameUses(a) /\ SameSupp(a)
  BY <1>2, <1>3 DEF Local, User, SameMark, SameUses, SameSupp, Marked, Uses, InPool, InFlash,
                    Excused, Writes
<1>. QED
  BY <1>5, <1>6, PrivateStep, SemNames DEF CallDevice, SameUses, SameSupp

LEMMA TerminateKeeps ==
  ASSUME Inv, NEW a \in Asid, Terminate(a)
  PROVE  Inv'
<1>1. /\ at[a] = User /\ Quiet(a) /\ Local(a)
      /\ Goto(a, <<"killUproc", "test">>) /\ <<"killUproc", "test">> \in Labels
  BY QuietMeans DEF Terminate, At, User, Labels, Inv, LocalInv
<1>2. at'[a] = <<"killUproc", "test">> /\ Alone(a) /\ dev'[a] = dev[a] /\ target'[a] = a
  BY <1>1, GotoFacts DEF Terminate, Alone, Inv, TypeOK
<1>3. Goes(a)
  BY <1>1, <1>2 DEF Goes, Local, User
<1>4. SameMark(a) /\ SameUses(a) /\ SameSupp(a)
  BY <1>1, <1>2 DEF Local, User, SameMark, SameUses, SameSupp, Marked, Uses, InPool, InFlash,
                    Excused, Writes
<1>. QED
  BY <1>3, <1>4, PrivateStep, SemNames DEF Terminate, SameUses, SameSupp

\* The page is there, or a frame is picked.
LEMMA SearchKeeps ==
  ASSUME Inv, NEW a \in Asid, Search(a)
  PROVE  Inv'
<1>1. at[a] = <<"pager", "in">> /\ Quiet(a) /\ Local(a)
  BY QuietMeans DEF Search, At, Inv, LocalInv
<1>2. CASE Goto(a, <<"pager", "clear">>) /\ UNCHANGED locals
  <2>1. Stepped(a, <<"pager", "in">>, <<"pager", "clear">>)
    BY <1>2, SteppedFacts DEF Search, Labels
  <2>2. Goes(a) /\ SameMark(a) /\ SameUses(a) /\ SameSupp(a)
    BY <2>1 DEF Stepped, Goes, Local, User, SameMark, SameUses, SameSupp, Marked, Uses,
                InPool, InFlash, Excused, Writes
  <2>. QED
    BY <2>2, PrivateStep, SemNames DEF Search, SameUses, SameSupp
<1>3. ASSUME NEW f \in Frame,
             frame' = [frame EXCEPT ![a] = f], target' = [target EXCEPT ![a] = sw_asid[f]],
             Goto(a, IF sw_asid[f] = NULL THEN <<"pager", "read">> ELSE <<"write", "P">>),
             UNCHANGED dev
      PROVE  Inv'
  <2>1. PICK m \in {<<"pager", "read">>, <<"write", "P">>} :
          Goto(a, m) /\ m \in Labels /\ (m = <<"write", "P">> => sw_asid[f] # NULL)
    BY <1>3 DEF Labels
  <2>2. sw_asid[f] \in Asid \cup {NULL} /\ sw_asid' = sw_asid
    BY DEF Search, Inv, TypeOK
  <2>3. /\ at'[a] = m /\ Alone(a) /\ dev'[a] = dev[a]
        /\ target'[a] = sw_asid[f] /\ frame'[a] = f
    BY <1>3, <2>1, <2>2, GotoFacts DEF Search, Alone, Inv, TypeOK
  <2>4. Goes(a)
    BY <1>1, <2>1, <2>2, <2>3 DEF Goes, Local, User
  <2>5. SameMark(a) /\ SameUses(a) /\ SameSupp(a)
    BY <1>1, <2>3 DEF SameMark, SameUses, SameSupp, Marked, Uses, InPool, InFlash,
                      Excused, Writes
  <2>. QED
    BY <2>4, <2>5, PrivateStep, SemNames DEF Search, SameUses, SameSupp
<1>. QED
  BY <1>2, <1>3 DEF Search

LEMMA ReadFlashKeeps ==
  ASSUME Inv, NEW a \in Asid, ReadFlash(a)
  PROVE  Inv'
<1>1. /\ at[a] = <<"pager", "read">> /\ Quiet(a) /\ Local(a)
      /\ Goto(a, <<"read", "P">>) /\ <<"read", "P">> \in Labels
  BY QuietMeans DEF ReadFlash, At, Labels, Inv, LocalInv
<1>2. /\ at'[a] = <<"read", "P">> /\ Alone(a)
      /\ dev'[a] = dev[a] /\ target'[a] = a /\ frame'[a] = frame[a]
  BY <1>1, GotoFacts DEF ReadFlash, Alone, Inv, TypeOK
<1>3. Goes(a)
  BY <1>1, <1>2 DEF Goes, Local, User
<1>4. SameMark(a) /\ SameUses(a) /\ SameSupp(a)
  BY <1>1, <1>2 DEF SameMark, SameUses, SameSupp, Marked, Uses, InPool, InFlash,
                    Excused, Writes
<1>. QED
  BY <1>3, <1>4, PrivateStep, SemNames DEF ReadFlash, SameUses, SameSupp

\* A step that gives frames to the U-proc, or frees them.
LEMMA FrameStep ==
  ASSUME Inv, NEW a \in Asid, Goes(a), SameUses(a), SameMark(a), SameSupp(a),
         at[a] \in Marked, UNCHANGED <<sems, marks>>,
         sw_asid' \in [Frame -> Asid \cup {NULL}],
         \A f \in Frame : sw_asid'[f] \in {sw_asid[f], a, NULL}
  PROVE  Inv'
<1>1. /\ SemType' /\ MutexInv' /\ PoolInv'
      /\ queue'[Master] = queue[Master] /\ value'[Master] = value[Master]
  BY MutexQuiet, SemNames DEF Goes, SameUses
<1>2. RestType'
  BY DEF RestType, marks, Inv, TypeOK
<1>3. MarkInv' /\ SuppInv' /\ MasterInv'
  BY <1>1, MarkKept, SuppKept, MasterKept DEF Goes, SameMark, SameSupp, sems, marks
<1>4. ASSUME NEW b \in Asid, b # a
      PROVE  Local(b)'
  <2>1. at'[b] = at[b] /\ dev'[b] = dev[b] /\ target'[b] = target[b] /\ frame'[b] = frame[b]
    BY <1>4 DEF Goes, Alone, Proc
  <2>2. at[b][1] # "write"
    <3>1. at[b] \notin Marked
      BY <1>4, OneMarked, MarkedUsesPool DEF Goes
    <3>2. at[b] \in Labels
      BY DEF Inv, TypeOK
    <3>. QED
      BY <3>1, <3>2 DEF Marked, Labels, User
  <2>3. Local(b) /\ b # NULL
    BY DEF Inv, LocalInv
  <2>4. \A f \in Frame : sw_asid[f] # b => sw_asid'[f] # b
    BY <1>4, <2>3
  <2>. QED
    BY <2>1, <2>2, <2>3, <2>4 DEF Local
<1>5. LocalInv'
  BY <1>4 DEF LocalInv, Goes
<1>. QED
  BY <1>1, <1>2, <1>3, <1>5, Assemble DEF Goes

LEMMA InstallKeeps ==
  ASSUME Inv, NEW a \in Asid, Install(a)
  PROVE  Inv'
<1>1. /\ at[a] = <<"pager", "install">> /\ Quiet(a) /\ Local(a)
      /\ Goto(a, <<"pager", "clear">>) /\ <<"pager", "clear">> \in Labels
  BY QuietMeans DEF Install, At, Labels, Inv, LocalInv
<1>2. at'[a] = <<"pager", "clear">> /\ Alone(a) /\ dev'[a] = dev[a]
  BY <1>1, GotoFacts DEF Install, Alone, Inv, TypeOK
<1>3. Goes(a) /\ at[a] \in Marked
  BY <1>1, <1>2 DEF Goes, Local, User, Marked
<1>4. SameMark(a) /\ SameUses(a) /\ SameSupp(a)
  BY <1>1, <1>2 DEF SameMark, SameUses, SameSupp, Marked, Uses, InPool, InFlash,
                    Excused, Writes
<1>5. /\ sw_asid' \in [Frame -> Asid \cup {NULL}]
      /\ \A f \in Frame : sw_asid'[f] \in {sw_asid[f], a, NULL}
  BY <1>1 DEF Install, Local, Inv, TypeOK
<1>. QED
  BY <1>3, <1>4, <1>5, FrameStep DEF Install

-----------------------------------------------------------------------------
(* The end of a U-proc                                                     *)

\* A U-proc that is in killUproc does not hold the pool, unless it says so.
LEMMA TestHolderKeeps ==
  ASSUME Inv, NEW a \in Asid, TestHolder(a)
  PROVE  Inv'
<1>1. at[a] = <<"killUproc", "test">> /\ target[a] = a
  BY DEF TestHolder, At, Inv, LocalInv, Local
<1>2. asidSemSwapPool # a
  BY <1>1 DEF Inv, MarkInv, Marked
<1>3. Stepped(a, <<"killUproc", "test">>, <<"killUproc", "P">>)
  BY <1>1, <1>2, SteppedFacts DEF TestHolder, Labels
<1>4. Goes(a)
  BY <1>3 DEF Stepped, Goes, Local, User
<1>5. SameMark(a) /\ SameUses(a) /\ SameSupp(a)
  BY <1>3 DEF Stepped, SameMark, SameUses, SameSupp, Marked, Uses, InPool, InFlash,
              Excused, Writes
<1>. QED
  BY <1>4, <1>5, PrivateStep, SemNames DEF TestHolder, SameUses, SameSupp

LEMMA FreeFramesKeeps ==
  ASSUME Inv, NEW a \in Asid, FreeFrames(a)
  PROVE  Inv'
<1>1. /\ at[a] = <<"killUproc", "in">> /\ Quiet(a) /\ Local(a) /\ a # NULL
      /\ Goto(a, <<"killUproc", "clear">>) /\ <<"killUproc", "clear">> \in Labels
  BY QuietMeans DEF FreeFrames, At, Labels, Inv, LocalInv
<1>2. /\ at'[a] = <<"killUproc", "clear">> /\ Alone(a)
      /\ dev'[a] = dev[a] /\ target'[a] = target[a]
  BY <1>1, GotoFacts DEF FreeFrames, locals, Alone, Inv, TypeOK
<1>3. \A f \in Frame : sw_asid'[f] = IF sw_asid[f] = a THEN NULL ELSE sw_asid[f]
  BY <1>1 DEF FreeFrames, Local
<1>4. Goes(a) /\ at[a] \in Marked
  BY <1>1, <1>2, <1>3 DEF Goes, Local, User, Marked
<1>5. SameMark(a) /\ SameUses(a) /\ SameSupp(a)
  BY <1>1, <1>2 DEF SameMark, SameUses, SameSupp, Marked, Uses, InPool, InFlash,
                    Excused, Writes
<1>6. sw_asid' \in [Frame -> Asid \cup {NULL}]
  BY DEF FreeFrames, Inv, TypeOK
<1>. QED
  BY <1>3, <1>4, <1>5, <1>6, FrameStep DEF FreeFrames

\* Nobody is to be found with a device.
LEMMA NothingIsHeld ==
  ASSUME Inv, NEW a \in Asid, at[a] = <<"killUproc", "device">>
  PROVE  target[a] = a /\ suppDevSemsAsid[a] = NULL
<1>1. Local(a)
  BY DEF Inv, LocalInv
<1>2. ~Excused(a)
  BY DEF Excused
<1>3. ASSUME NEW b \in Asid, Writes(b, a)
      PROVE  FALSE
  <2>1. Local(b)
    BY DEF Inv, LocalInv
  <2>2. frame[b] \in Frame /\ sw_asid[frame[b]] = a
    BY <1>3, <2>1 DEF Writes, Local
  <2>. QED
    BY <1>1, <2>2 DEF Local
<1>. QED
  BY <1>1, <1>2, <1>3 DEF Inv, SuppInv, Local

LEMMA HeldDeviceKeeps ==
  ASSUME Inv, NEW a \in Asid, HeldDevice(a)
  PROVE  Inv'
<1>1. at[a] = <<"killUproc", "device">> /\ Quiet(a) /\ Local(a)
  BY QuietMeans DEF HeldDevice, At, Inv, LocalInv
<1>2. /\ dev' = [dev EXCEPT ![a] = NULL] /\ Goto(a, <<"killUproc", "signal">>)
      /\ <<"killUproc", "signal">> \in Labels
  BY <1>1, NothingIsHeld DEF HeldDevice, Labels
<1>3. /\ at'[a] = <<"killUproc", "signal">> /\ Alone(a)
      /\ dev'[a] = NULL /\ target'[a] = target[a]
  BY <1>2, GotoFacts DEF HeldDevice, Alone, Inv, TypeOK
<1>4. Goes(a)
  BY <1>1, <1>3 DEF HeldDevice, Goes, Local, User
<1>5. SameMark(a) /\ SameSupp(a)
  BY <1>1, <1>3 DEF SameMark, SameSupp, Marked, Excused, Writes
<1>6. ~Uses(a, Pool) /\ \A s \in Mutexes : Uses(a, s)' => Uses(a, s)
  BY <1>1, <1>3, SemNames DEF Uses, InPool, InFlash, Local
<1>. QED
  BY <1>4, <1>5, <1>6, PrivateStep DEF HeldDevice, SameSupp

\* The V on masterSemaphore counts the U-proc.
LEMMA AsidIsFinite ==
  ASSUME IsFiniteSet(Asid)
  PROVE  /\ IsFiniteSet(Ended) /\ Cardinality(Ended) \in Nat /\ Cardinality(Asid) \in Nat
         /\ Cardinality(Ended) <= Cardinality(Asid)
         /\ Cardinality(Ended) = Cardinality(Asid) => Ended = Asid
<1>1. Ended \subseteq Asid
  BY DEF Ended
<1>. QED
  BY <1>1, FS_Subset, FS_CardinalityType

LEMMA MasterSignalled ==
  ASSUME Inv, IsFiniteSet(Asid), NEW a \in Asid, at[a] # <<"killUproc", "end">>,
         at'[a] = <<"killUproc", "end">>, Alone(a),
         Call(a, 1, value[Master], queue[Master], value'[Master], queue'[Master])
  PROVE  MasterInv' /\ queue'[Master] \in Seq(Proc \X {0, 1})
<1>1. at'[Test] = at[Test] /\ awaited' = awaited
  BY DEF Alone, Proc
<1>2. Ended' = Ended \cup {a} /\ a \notin Ended
  BY DEF Alone, Proc, Ended
<1>3. Cardinality(Ended') = Cardinality(Ended) + 1 /\ Cardinality(Ended) \in Nat
  BY <1>2, AsidIsFinite, FS_AddElement
<1>4. /\ value[Master] \in {0, 1} /\ queue[Master] \in Seq(Proc \X {0, 1}) /\ awaited \in Nat
      /\ Cardinality(Asid) \in Nat
  BY AsidIsFinite DEF Inv, TypeOK, Sem
<1> DEFINE q == queue[Master]
<1>5. CASE q = <<<<Test, 0>>>> /\ value[Master] = 0 /\ Cardinality(Ended) + 1 = awaited
  <2>1. queue'[Master] = <<>> /\ value'[Master] = 0
    BY <1>5 DEF Call
  <2>. QED
    BY <1>1, <1>3, <1>5, <2>1 DEF MasterInv, Inv
<1>6. CASE /\ \A i \in DOMAIN q : q[i][1] \in Ended
           /\ q # <<>> => value[Master] = 1
           /\ Cardinality(Ended) = awaited + value[Master] + Len(q)
  <2>1. CASE value[Master] = 1
    <3>1. queue'[Master] = Append(q, <<a, 1>>) /\ value'[Master] = 1
      BY <2>1 DEF Call
    <3>2. /\ Len(queue'[Master]) = Len(q) + 1 /\ Len(q) \in Nat
          /\ queue'[Master] \in Seq(Proc \X {0, 1})
      BY <1>4, <3>1 DEF Proc
    <3>3. \A i \in DOMAIN queue'[Master] : queue'[Master][i][1] \in Ended'
      BY <1>2, <1>4, <1>6, <3>1
    <3>4. Cardinality(Ended') = awaited' + value'[Master] + Len(queue'[Master])
      BY <1>1, <1>3, <1>4, <1>6, <2>1, <3>1, <3>2
    <3>. QED
      BY <1>1, <3>1, <3>2, <3>3, <3>4 DEF MasterInv, Inv
  <2>2. CASE value[Master] = 0
    <3>1. q = <<>> /\ queue'[Master] = <<>> /\ value'[Master] = 1
      BY <1>6, <2>2 DEF Call
    <3>. QED
      BY <1>1, <1>3, <1>4, <1>6, <2>2, <3>1 DEF MasterInv, Inv
  <2>. QED
    BY <1>4, <2>1, <2>2
<1>. QED
  BY <1>5, <1>6 DEF MasterInv, Inv

LEMMA MutexesSame ==
  ASSUME Inv,
         \A s \in Mutexes : value'[s] = value[s] /\ queue'[s] = queue[s],
         \A s \in Mutexes, a \in Asid : Uses(a, s)' <=> Uses(a, s)
  PROVE  MutexInv' /\ PoolInv'
<1>1. \A s \in Mutexes : Users(s)' = Users(s)
  BY DEF Users
<1>2. MutexInv'
  BY <1>1 DEF Inv, MutexInv
<1>3. PoolInv'
  BY <1>1, SemNames DEF Inv, PoolInv
<1>. QED
  BY <1>2, <1>3

LEMMA SignalKeeps ==
  ASSUME Inv, IsFiniteSet(Asid), NEW a \in Asid, Signal(a)
  PROVE  Inv'
<1>1. /\ at[a] = <<"killUproc", "signal">> /\ Quiet(a) /\ Local(a)
      /\ Goto(a, <<"killUproc", "end">>) /\ <<"killUproc", "end">> \in Labels
  BY QuietMeans DEF Signal, At, V, Labels, Inv, LocalInv
<1>2. /\ at'[a] = <<"killUproc", "end">> /\ Alone(a)
      /\ dev'[a] = dev[a] /\ target'[a] = target[a] /\ sw_asid' = sw_asid
  BY <1>1, GotoFacts DEF Signal, Alone, locals, Inv, TypeOK
<1>3. a \in Proc /\ Master \in Sem
  BY DEF Proc, Sem
<1>4. /\ Call(a, 1, value[Master], queue[Master], value'[Master], queue'[Master])
      /\ \A t \in Sem \ {Master} : value'[t] = value[t] /\ queue'[t] = queue[t]
      /\ live' = live
      /\ value' \in [Sem -> {0, 1}]
      /\ queue' = [t \in Sem |-> queue'[t]]
  BY <1>3, CallFacts DEF Signal, V, Inv
<1>5. MasterInv' /\ queue'[Master] \in Seq(Proc \X {0, 1})
  BY <1>1, <1>2, <1>4, MasterSignalled
<1>6. \A t \in Sem : queue'[t] \in Seq(Proc \X {0, 1})
  BY <1>4, <1>5 DEF Inv, TypeOK
<1>7. SemType'
  BY <1>4, <1>6 DEF SemType, Inv, TypeOK
<1>8. ASSUME NEW s \in Mutexes, NEW b \in Asid
      PROVE  Uses(b, s)' <=> Uses(b, s)
  <2>1. CASE b = a
    BY <1>1, <1>2, <2>1 DEF Uses, InPool, InFlash, Local
  <2>. QED
    BY <1>2, <2>1, OthersUse
<1>9. MutexInv' /\ PoolInv'
  BY <1>4, <1>8, MutexesSame, SemNames
<1>10. Local(a)'
  BY <1>1, <1>2 DEF Local, User
<1>11. LocalInv'
  BY <1>2, <1>10, LocalKept
<1>12. MarkInv'
  BY <1>1, <1>2, <1>4, MarkKept, SemNames DEF Signal, marks, Marked
<1>13. SuppInv'
  BY <1>1, <1>2, SuppKept DEF Signal, marks, Excused, Writes
<1>14. RestType'
  BY DEF Signal, marks, RestType, Inv, TypeOK
<1>. QED
  BY <1>2, <1>5, <1>7, <1>9, <1>11, <1>12, <1>13, <1>14, Assemble

\* TERMPROCESS on a process that waits for nothing.
LEMMA TerminatesKeeps ==
  ASSUME Inv, NEW p \in Proc, S!Terminates(p),
         \A s \in Sem : ~InQueue(p, queue[s]),
         UNCHANGED <<at, locals, marks, sw_asid, awaited>>
  PROVE  Inv'
<1>1. ASSUME NEW s \in Sem
      PROVE  queue'[s] = queue[s]
  <2>1. \A i \in 1 .. Len(queue[s]) : queue[s][i] # <<p, 0>> /\ queue[s][i] # <<p, 1>>
    BY DEF InQueue, Inv, TypeOK
  <2>2. S!RemoveFirst(queue[s], <<p, 0>>) = queue[s] /\ S!RemoveFirst(queue[s], <<p, 1>>) = queue[s]
    BY <2>1 DEF S!RemoveFirst
  <2>. QED
    BY <2>2 DEF S!Terminates
<1>2. queue' = queue
  BY <1>1 DEF S!Terminates, Inv, TypeOK
<1>3. value' = value /\ live' \subseteq Proc
  BY DEF S!Terminates, Inv, TypeOK
<1>4. TypeOK'
  BY <1>2, <1>3 DEF TypeOK, Inv, locals, marks
<1>5. Users(Pool)' = Users(Pool) /\ \A s : Users(s)' = Users(s)
  BY DEF Users, Uses, locals
<1>6. MutexInv' /\ PoolInv'
  BY <1>2, <1>3, <1>5 DEF MutexInv, PoolInv, Inv
<1>7. MarkInv' /\ MasterInv' /\ AtType'
  BY <1>2, <1>3 DEF MarkInv, MasterInv, AtType, Ended, Inv, marks
<1>8. LocalInv' /\ SuppInv'
  BY DEF LocalInv, Local, SuppInv, Excused, Writes, Inv, locals, marks
<1>. QED
  BY <1>4, <1>6, <1>7, <1>8 DEF Inv

LEMMA KillUprocKeeps ==
  ASSUME Inv, IsFiniteSet(Asid), NEW a \in Asid, KillUproc(a)
  PROVE  Inv'
<1>1. CASE TestHolder(a) \/ FreeFrames(a) \/ HeldDevice(a) \/ Signal(a)
  BY <1>1, TestHolderKeeps, FreeFramesKeeps, HeldDeviceKeeps, SignalKeeps
<1>2. CASE AcquireSwapPoolTable(a, "killUproc", target[a]) /\ UNCHANGED <<locals, sw_asid, awaited>>
  BY <1>2, AcquirePoolKeeps
<1>3. CASE /\ ReleaseSwapPoolTable(a, "killUproc", <<"killUproc", "device">>)
           /\ UNCHANGED <<locals, sw_asid, awaited>>
  BY <1>3, ReleasePoolKeeps
<1>4. CASE ReleaseDevice(a, "held", target[a], dev[a], <<"killUproc", "signal">>)
  <2>1. at[a][1] = "held"
    BY <1>4 DEF ReleaseDevice, At
  <2>. QED
    BY <2>1 DEF Inv, LocalInv, Local
<1>5. CASE /\ At(a, "killUproc", "end") /\ S!Terminates(a)
           /\ UNCHANGED <<at, locals, marks, sw_asid, awaited>>
  <2>1. \A s \in Sem : ~InQueue(a, queue[s])
    BY <1>5, QuietMeans DEF At, Quiet
  <2>. QED
    BY <1>5, <2>1, TerminatesKeeps DEF Proc
<1>. QED
  BY <1>1, <1>2, <1>3, <1>4, <1>5 DEF KillUproc

-----------------------------------------------------------------------------
(* p3test                                                                  *)

LEMMA TestFacts ==
  ASSUME Inv, NEW l \in AtTest, Goto(Test, l)
  PROVE  /\ at' \in [Proc -> Labels \cup AtTest] /\ at'[Test] = l
         /\ \A a \in Asid : at'[a] = at[a]
BY DEF Goto, Inv, AtType, Proc

\* A step of the test process on masterSemaphore only.
LEMMA TestStep ==
  ASSUME Inv, NEW l \in AtTest, Goto(Test, l), UNCHANGED <<locals, marks, sw_asid>>,
         SemType', \A t \in Sem \ {Master} : value'[t] = value[t] /\ queue'[t] = queue[t],
         MasterInv', awaited' \in 0 .. Cardinality(Asid)
  PROVE  Inv'
<1>1. /\ at' \in [Proc -> Labels \cup AtTest] /\ at'[Test] = l
      /\ \A a \in Asid : at'[a] = at[a]
  BY TestFacts
<1>2. TypeOK' /\ AtType'
  BY <1>1 DEF SemType, TypeOK, AtType, Inv, locals, marks, AtTest
<1>3. \A s \in Mutexes, a \in Asid : Uses(a, s)' <=> Uses(a, s)
  BY <1>1 DEF Uses, locals
<1>4. MutexInv' /\ PoolInv'
  BY <1>3, MutexesSame, SemNames
<1>5. queue'[Pool] = queue[Pool]
  BY SemNames
<1>6. MarkInv'
  BY <1>1, <1>5 DEF MarkInv, Inv, marks
<1>7. LocalInv'
  BY <1>1 DEF LocalInv, Local, Inv, locals
<1>8. SuppInv'
  BY <1>1 DEF SuppInv, Excused, Writes, Inv, locals, marks
<1>. QED
  BY <1>2, <1>4, <1>6, <1>7, <1>8 DEF Inv

LEMMA CreateKeeps ==
  ASSUME Inv, IsFiniteSet(Asid), Create
  PROVE  Inv'
<1>1. PICK a \in Unborn : S!Starts(a)
  BY DEF Create
<1>2. at[Test] = <<"create", "in">>
  BY DEF Create, At
<1>3. PICK l \in {<<"wait", "P">>, <<"create", "in">>} : Goto(Test, l)
  BY DEF Create
<1>4. awaited = 0 /\ awaited' = 0
  BY <1>2 DEF Inv, MasterInv, Create
<1>5. Cardinality(Asid) \in Nat /\ Cardinality(Asid) # 0
  <2>1. a \in Asid
    BY DEF Unborn
  <2>. QED
    BY <2>1, FS_CardinalityType, FS_EmptySet
<1>6. value' = value /\ queue' = queue /\ SemType'
  BY <1>1 DEF S!Starts, SemType, Inv, TypeOK, Unborn, Proc
<1>7. at'[Test] = l /\ \A b \in Asid : at'[b] = at[b]
  BY <1>3, TestFacts DEF AtTest
<1>8. Ended' = Ended
  BY <1>7 DEF Ended
<1>9. MasterInv'
  BY <1>3, <1>4, <1>5, <1>6, <1>7, <1>8 DEF MasterInv, Inv
<1>. QED
  BY <1>3, <1>4, <1>5, <1>6, <1>9, TestStep DEF Create, AtTest

\* When the test process does not wait, only U-procs that have ended do.
LEMMA TestIsAwake ==
  ASSUME Inv, ~Waits(Test)
  PROVE  /\ \A i \in DOMAIN queue[Master] : queue[Master][i][1] \in Ended
         /\ queue[Master] # <<>> => value[Master] = 1
         /\ Cardinality(Ended) = awaited + value[Master] + Len(queue[Master])
<1>1. queue[Master] # <<<<Test, 0>>>>
  BY DEF Waits, Sem
<1>. QED
  BY <1>1 DEF Inv, MasterInv

LEMMA AwaitKeeps ==
  ASSUME Inv, IsFiniteSet(Asid), Await
  PROVE  Inv'
<1> DEFINE q == queue[Master]
           q2 == queue'[Master]
           n == Cardinality(Asid)
           e == Cardinality(Ended)
           l == IF awaited' = n THEN <<"wait", "end">> ELSE <<"wait", "P">>
<1>1. at[Test] = <<"wait", "P">> /\ ~Waits(Test) /\ awaited' = awaited + 1 /\ P(Test, Master, l)
  BY DEF Await, At
<1>2. l \in AtTest /\ Goto(Test, l)
  BY <1>1 DEF P, AtTest
<1>3. /\ Call(Test, 0, value[Master], q, value'[Master], q2)
      /\ \A t \in Sem \ {Master} : value'[t] = value[t] /\ queue'[t] = queue[t]
      /\ live' = live
      /\ value' \in [Sem -> {0, 1}]
      /\ queue' = [t \in Sem |-> queue'[t]]
  BY <1>1, CallFacts DEF P, Inv, Proc, Sem
<1>4. /\ value[Master] \in {0, 1} /\ q \in Seq(Proc \X {0, 1}) /\ awaited \in Nat
      /\ n \in Nat /\ awaited < n /\ e \in Nat
  BY <1>1, AsidIsFinite DEF Inv, TypeOK, Sem, MasterInv
<1>5. /\ \A i \in DOMAIN q : q[i][1] \in Ended
      /\ q # <<>> => value[Master] = 1
      /\ e = awaited + value[Master] + Len(q)
  BY <1>1, TestIsAwake
<1>6. at'[Test] = l /\ \A a \in Asid : at'[a] = at[a]
  BY <1>2, TestFacts
<1>7. Ended' = Ended /\ awaited' \in 0 .. n
  BY <1>1, <1>4, <1>6 DEF Ended
<1>8. /\ at'[Test] # <<"create", "in">>
      /\ at'[Test] = <<"wait", "P">> => awaited' < n
      /\ at'[Test] = <<"wait", "end">> => awaited' = n
  BY <1>4, <1>6, <1>7
<1>9. /\ q2 \in Seq(Proc \X {0, 1})
      /\ \/ q2 = <<<<Test, 0>>>> /\ value'[Master] = 0 /\ e + 1 = awaited'
         \/ /\ \A i \in DOMAIN q2 : q2[i][1] \in Ended
            /\ q2 # <<>> => value'[Master] = 1
            /\ e = awaited' + value'[Master] + Len(q2)
  <2>1. CASE value[Master] = 0
    <3>1. q = <<>> /\ q2 = Append(q, <<Test, 0>>) /\ value'[Master] = 0
      BY <1>3, <1>5, <2>1 DEF Call
    <3>2. q2 = <<<<Test, 0>>>> /\ <<Test, 0>> \in Proc \X {0, 1}
      <4> HIDE DEF q, q2
      <4>. QED
        BY <3>1 DEF Proc
    <3>3. e + 1 = awaited'
      BY <1>1, <1>4, <1>5, <2>1, <3>1
    <3>. QED
      BY <3>1, <3>2, <3>3
  <2>2. CASE value[Master] = 1 /\ q # <<>>
    <3>1. q2 = Tail(q) /\ value'[Master] = 1
      BY <1>3, <2>2 DEF Call
    <3>2. /\ q2 \in Seq(Proc \X {0, 1}) /\ Len(q2) = Len(q) - 1 /\ Len(q) \in Nat
          /\ \A i \in DOMAIN q2 : i + 1 \in DOMAIN q /\ q2[i] = q[i + 1]
      BY <1>4, <2>2, <3>1
    <3>3. e = awaited' + value'[Master] + Len(q2)
      <4>1. e = awaited + 1 + Len(q) /\ awaited' = awaited + 1
        BY <1>1, <1>5, <2>2
      <4> HIDE DEF q, q2, e
      <4>. QED
        BY <1>4, <3>1, <3>2, <4>1
    <3>. QED
      BY <1>5, <3>1, <3>2, <3>3
  <2>3. CASE value[Master] = 1 /\ q = <<>>
    <3>1. q2 = <<>> /\ value'[Master] = 0
      BY <1>3, <2>3 DEF Call
    <3>2. e = awaited' + value'[Master] + Len(q2)
      BY <1>1, <1>4, <1>5, <2>3, <3>1
    <3>. QED
      BY <3>1, <3>2
  <2>. QED
    BY <1>4, <2>1, <2>2, <2>3
<1>10. MasterInv'
  BY <1>7, <1>8, <1>9 DEF MasterInv
<1>11. \A t \in Sem : queue'[t] \in Seq(Proc \X {0, 1})
  BY <1>3, <1>9 DEF Inv, TypeOK
<1>12. SemType'
  BY <1>3, <1>11 DEF SemType, Inv, TypeOK
<1>. QED
  BY <1>2, <1>3, <1>7, <1>10, <1>12, TestStep DEF Await

\* When the test process is at its end, nobody waits for anything.
LEMMA NobodyWaits ==
  ASSUME Inv, IsFiniteSet(Asid), at[Test] = <<"wait", "end">>, ~Waits(Test)
  PROVE  Ended = Asid /\ \A s \in Sem : queue[s] = <<>>
<1>1. /\ value[Master] \in {0, 1} /\ \A s \in Sem : queue[s] \in Seq(Proc \X {0, 1})
      /\ awaited = Cardinality(Asid)
  BY DEF Inv, TypeOK, Sem, MasterInv
<1>2. /\ Cardinality(Ended) = Cardinality(Asid) + value[Master] + Len(queue[Master])
      /\ Len(queue[Master]) \in Nat
  BY <1>1, TestIsAwake, SemNames
<1>3. Len(queue[Master]) = 0 /\ Ended = Asid
  BY <1>1, <1>2, AsidIsFinite
<1>4. ASSUME NEW s \in Mutexes
      PROVE  queue[s] = <<>>
  <2>1. \A a \in Asid : ~Uses(a, s)
    <3>1. \A a \in Asid : at[a] = <<"killUproc", "end">>
      BY <1>3 DEF Ended
    <3>2. \A a \in Asid : dev[a] = NULL
      BY <3>1 DEF Inv, LocalInv, Local
    <3>. QED
      BY <3>1, <3>2 DEF Uses, InPool, InFlash
  <2>2. \A i \in DOMAIN queue[s] : FALSE
    BY <2>1 DEF Inv, MutexInv, Mutex, Users
  <2>. QED
    <3>1. queue[s] \in Seq(Proc \X {0, 1})
      BY <1>1, SemNames
    <3>2. queue[s] # <<>> => 1 \in DOMAIN queue[s]
      BY <3>1
    <3>. QED
      BY <2>2, <3>2
<1>5. queue[Master] = <<>>
  BY <1>1, <1>3, SemNames
<1>. QED
  BY <1>3, <1>4, <1>5, SemNames

LEMMA EndKeeps ==
  ASSUME Inv, IsFiniteSet(Asid), End
  PROVE  Inv'
<1>1. at[Test] = <<"wait", "end">> /\ ~Waits(Test)
  BY DEF End, At
<1>2. PICK p \in Proc : S!Terminates(p)
  BY DEF End, Inv, TypeOK, Proc
<1>3. \A s \in Sem : ~InQueue(p, queue[s])
  BY <1>1, NobodyWaits DEF InQueue
<1>. QED
  BY <1>2, <1>3, TerminatesKeeps DEF End

-----------------------------------------------------------------------------
LEMMA InitInv ==
  ASSUME IsFiniteSet(Asid), Init
  PROVE  Inv
<1>1. \A a \in Asid : at[a] = User /\ dev[a] = NULL
  BY DEF Init, Proc
<1>2. \A s : Users(s) = {}
  BY <1>1 DEF Users, Uses, User, InPool, InFlash
<1>3. \A s \in Mutexes : value[s] = 1 /\ queue[s] = <<>>
  BY SemNames DEF Init
<1>4. MutexInv /\ PoolInv
  BY <1>2, <1>3, SemNames DEF MutexInv, PoolInv, Mutex, Held
<1>5. at[Test] = <<"create", "in">> /\ AtType /\ \A a \in Asid : at[a] \in Labels
  BY <1>1 DEF Init, Proc, AtType, AtTest, Labels
<1>6. queue \in [Sem -> Seq(Proc \X {0, 1})]
  BY DEF Init
<1>7. awaited = 0
  BY DEF Init
<1>8. value \in [Sem -> {0, 1}] /\ live \subseteq Proc
  BY DEF Init, Proc
<1>9. TypeOK
  BY <1>5, <1>6, <1>7, <1>8, FS_CardinalityType DEF Init, TypeOK
<1>10. MarkInv
  BY <1>1, <1>3, SemNames DEF Init, MarkInv, Marked, InQueue, User
<1>11. LocalInv
  BY <1>1 DEF LocalInv, Local, User
<1>12. SuppInv
  BY DEF Init, SuppInv
<1>13. Ended = {} /\ Cardinality(Ended) = 0
  BY <1>1, FS_EmptySet DEF Ended, User
<1>14. MasterInv
  BY <1>5, <1>7, <1>13, SemNames DEF Init, MasterInv
<1>. QED
  BY <1>4, <1>5, <1>9, <1>10, <1>11, <1>12, <1>14 DEF Inv

LEMMA NextInv ==
  ASSUME Inv, IsFiniteSet(Asid), "write" \notin Faults, [Next]_vars
  PROVE  Inv'
<1>1. ASSUME NEW a \in Asid, Will(a)
      PROVE  Inv'
  BY <1>1, CallDeviceKeeps, PageFaultKeeps, TerminateKeeps, EndOfMessageKeeps DEF Will
<1>2. ASSUME NEW a \in Asid, UsePool(a) \/ FlashError(a)
      PROVE  Inv'
  BY <1>2, AcquirePoolKeeps, ReleasePoolKeeps DEF UsePool, FlashError
<1>3. ASSUME NEW a \in Asid, Work(a)
      PROVE  Inv'
  BY <1>2, <1>3, UseDeviceKeeps, SearchKeeps, ReadFlashKeeps, FlashRWKeeps, InstallKeeps,
     KillUprocKeeps DEF Work, Pager
<1>4. CASE P3test
  BY <1>4, CreateKeeps, AwaitKeeps, EndKeeps DEF P3test
<1>5. CASE UNCHANGED vars
  <2>. USE <1>5 DEF vars, sems, locals, marks
  <2>1. TypeOK' /\ AtType'
    BY DEF Inv, TypeOK, AtType
  <2>2. \A s : Users(s)' = Users(s)
    BY DEF Users, Uses
  <2>3. MutexInv' /\ PoolInv'
    BY <2>2 DEF Inv, MutexInv, PoolInv
  <2>4. MarkInv' /\ LocalInv' /\ SuppInv'
    BY DEF Inv, MarkInv, LocalInv, Local, SuppInv, Excused, Writes
  <2>5. MasterInv'
    BY DEF Inv, MasterInv, Ended
  <2>. QED
    BY <2>1, <2>3, <2>4, <2>5 DEF Inv
<1>. QED
  BY <1>1, <1>3, <1>4, <1>5 DEF Next

LEMMA SpecInv ==
  ASSUME IsFiniteSet(Asid), "write" \notin Faults
  PROVE  Spec => []Inv
<1>1. Init => Inv
  BY InitInv
<1>2. Inv /\ [Next]_vars => Inv'
  BY NextInv
<1>. QED
  BY <1>1, <1>2, PTL DEF Spec

-----------------------------------------------------------------------------
(* What holds while every write to a flash device succeeds                 *)

\* The variables of the support level keep their types, for every number of
\* U-procs, lines and frames: no deviceIndex and no asid is out of range.
THEOREM SupportTypes ==
  ASSUME IsFiniteSet(Asid), "write" \notin Faults
  PROVE  Spec => []TypeOK
<1>1. Inv => TypeOK
  BY DEF Inv
<1>. QED
  BY <1>1, SpecInv, PTL

\* One U-proc at a time is between acquireSwapPoolTable and
\* releaseSwapPoolTable, and asidSemSwapPool names no other one.
THEOREM OneInPool ==
  ASSUME IsFiniteSet(Asid), "write" \notin Faults
  PROVE  Spec => []PoolIsExclusive
<1>1. ASSUME Inv
      PROVE  PoolIsExclusive
  <2>. USE <1>1
  <2>1. Mutex(value[Pool], queue[Pool], Users(Pool))
    BY SemNames DEF Inv, MutexInv
  <2>2. \A a \in Asid : HasPool(a) => a \in Users(Pool) /\ Has(a, queue[Pool], Users(Pool))
    BY DEF HasPool, Users, Uses, Has, InQueue
  <2>3. \A a, b \in Asid : HasPool(a) /\ HasPool(b) => a = b /\ value[Pool] = 0
    BY <2>1, <2>2 DEF Mutex
  <2>4. ASSUME NEW a \in Asid, HasPool(a), asidSemSwapPool # NULL
        PROVE  asidSemSwapPool = a
    <3>1. PICK b \in Asid : asidSemSwapPool = b
      BY <2>4 DEF Inv, TypeOK
    <3>2. at[b] \in Marked /\ ~InQueue(b, queue[Pool])
      BY <3>1 DEF Inv, MarkInv
    <3>3. b \in Users(Pool) /\ Has(b, queue[Pool], Users(Pool))
      BY <3>2, MarkedUsesPool DEF Users, Uses, Has
    <3>. QED
      BY <2>1, <2>2, <2>4, <3>1, <3>3 DEF Mutex
  <2>. QED
    BY <2>3, <2>4 DEF PoolIsExclusive
<1>. QED
  BY <1>1, SpecInv, PTL

\* releaseDevice and releaseSwapPoolTable are called by whoever has the mutex:
\* no V blocks, also not on the way from a flash error to killUproc.
THEOREM ReleasesByHolders ==
  ASSUME IsFiniteSet(Asid), "write" \notin Faults
  PROVE  Spec => []ReleaseNeverWaits
<1>1. Inv => ReleaseNeverWaits
  BY SemNames DEF Inv, MutexInv, Mutex, ReleaseNeverWaits
<1>. QED
  BY <1>1, SpecInv, PTL

\* A U-proc that dies holds no device: killUproc has none to release.
THEOREM NoDeviceIsLeft ==
  ASSUME IsFiniteSet(Asid), "write" \notin Faults
  PROVE  Spec => [](\A a \in Asid : at[a] = <<"killUproc", "device">> =>
                                      suppDevSemsAsid[target[a]] = NULL)
<1>1. Inv => \A a \in Asid : at[a] = <<"killUproc", "device">> => suppDevSemsAsid[target[a]] = NULL
  BY NothingIsHeld
<1>. QED
  BY <1>1, SpecInv, PTL

\* p3test comes to its end when every U-proc has told it so, with the pool
\* free and no frame in use.
THEOREM TestIsLast ==
  ASSUME IsFiniteSet(Asid), "write" \notin Faults
  PROVE  Spec => []TestEndsLast
<1>1. ASSUME Inv, at[Test] = <<"wait", "end">>, ~Waits(Test)
      PROVE  /\ \A a \in Asid : at[a] = <<"killUproc", "end">>
             /\ value[Pool] = 1 /\ \A f \in Frame : sw_asid[f] = NULL
  <2>. USE <1>1
  <2>1. \A a \in Asid : at[a] = <<"killUproc", "end">>
    BY NobodyWaits DEF Ended
  <2>2. \A a \in Asid : Local(a)
    BY DEF Inv, LocalInv
  <2>3. Users(Pool) = {}
    <3>1. \A a \in Asid : dev[a] = NULL
      BY <2>1, <2>2 DEF Local
    <3>. QED
      BY <2>1, <3>1 DEF Users, Uses, InPool, InFlash
  <2>4. value[Pool] = 1
    BY <2>3, SemNames DEF Inv, PoolInv, Held, TypeOK
  <2>5. \A f \in Frame : sw_asid[f] = NULL
    <3>1. ASSUME NEW a \in Asid
          PROVE  \A f \in Frame : sw_asid[f] # a
      <4>1. at[a] = <<"killUproc", "end">> /\ Local(a)
        BY <2>1, <2>2
      <4>. QED
        BY <4>1 DEF Local
    <3>2. sw_asid \in [Frame -> Asid \cup {NULL}]
      BY DEF Inv, TypeOK
    <3>. QED
      BY <3>1, <3>2
  <2>. QED
    BY <2>1, <2>4, <2>5
<1>2. Inv => TestEndsLast
  BY <1>1 DEF TestEndsLast
<1>. QED
  BY <1>2, SpecInv, PTL
=============================================================================
