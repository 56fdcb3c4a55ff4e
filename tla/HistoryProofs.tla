--------------------------- MODULE HistoryProofs ---------------------------
(* PASSEREN and VERHOGEN on one CPU: the values of the semaphores account  *)
(* for the completed calls, nobody waits for what is there, and the calls, *)
(* with their two reads outside the lock, are atomic.                      *)
EXTENDS NucleusHistory, HandlerProofs

-----------------------------------------------------------------------------
(* The blocked calls of a semaphore *)

Waiting      == PCB \X {0, 1}
CallOf(p, w) == <<p, w[p]>>

\* The queue q of processes as the queue of their calls.
Calls(q, w) == [i \in 1 .. Len(q) |-> CallOf(q[i], w)]

LEMMA CallOfType ==
  ASSUME NEW w \in [PCB -> {0, 1}], NEW p \in PCB PROVE CallOf(p, w) \in Waiting
BY DEF CallOf, Waiting

LEMMA CallsType ==
  ASSUME NEW q \in Seq(PCB), NEW w \in [PCB -> {0, 1}]
  PROVE  /\ Calls(q, w) \in Seq(Waiting) /\ Len(Calls(q, w)) = Len(q)
         /\ \A i \in 1 .. Len(q) : Calls(q, w)[i] = CallOf(q[i], w)
<1>1. Len(q) \in Nat /\ \A i \in 1 .. Len(q) : q[i] \in PCB
  BY LenProperties, ElementOfSeq
<1>. DEFINE m == Calls(q, w)
<1>2. /\ DOMAIN m = 1 .. Len(q) /\ \A i \in 1 .. Len(q) : m[i] = CallOf(q[i], w)
      /\ m = [i \in 1 .. Len(q) |-> m[i]]
  BY DEF Calls
<1>. HIDE DEF m
<1>3. \A i \in 1 .. Len(q) : m[i] \in Waiting
  BY <1>1, <1>2, CallOfType
<1>4. m \in Seq(Waiting) /\ Len(m) = Len(q)
  BY <1>1, <1>2, <1>3
<1>. QED  BY <1>2, <1>4 DEF m

LEMMA NoCalls == ASSUME NEW w PROVE Calls(<<>>, w) = <<>>
BY DEF Calls

\* A call that blocks joins the queue.
LEMMA CallsAppend ==
  ASSUME NEW q \in Seq(PCB), NEW w \in [PCB -> {0, 1}], NEW p \in PCB
  PROVE  Calls(Append(q, p), w) = Append(Calls(q, w), CallOf(p, w))
<1>. DEFINE a == Append(q, p)
            m == Calls(a, w)
            c == Calls(q, w)
            n == Append(c, CallOf(p, w))
<1>1. Len(q) \in Nat /\ \A i \in 1 .. Len(q) : q[i] \in PCB
  BY LenProperties, ElementOfSeq
<1>2. /\ a \in Seq(PCB) /\ Len(a) = Len(q) + 1 /\ a[Len(q) + 1] = p
      /\ \A i \in 1 .. Len(q) : a[i] = q[i]
  BY AppendProperties
<1>3. /\ c \in Seq(Waiting) /\ Len(c) = Len(q)
      /\ \A i \in 1 .. Len(q) : c[i] = CallOf(q[i], w)
  BY CallsType
<1>. HIDE DEF c
<1>4. /\ n \in Seq(Waiting) /\ Len(n) = Len(c) + 1 /\ n[Len(c) + 1] = CallOf(p, w)
      /\ \A i \in 1 .. Len(c) : n[i] = c[i]
  BY <1>3, CallOfType, AppendProperties
<1>. HIDE DEF a
<1>5. /\ m \in Seq(Waiting) /\ Len(m) = Len(a)
      /\ \A i \in 1 .. Len(a) : m[i] = CallOf(a[i], w)
  BY <1>2, CallsType
<1>. HIDE DEF m, n
<1>6. ASSUME NEW i \in 1 .. Len(q) + 1 PROVE m[i] = n[i]
  <2>1. CASE i = Len(q) + 1
    BY <1>1, <1>2, <1>3, <1>4, <1>5, <2>1
  <2>2. CASE i # Len(q) + 1
    <3>1. i \in 1 .. Len(q)
      BY <1>1, <2>2
    <3>. QED  BY <1>1, <1>2, <1>3, <1>4, <1>5, <3>1
  <2>. QED  BY <2>1, <2>2
<1>7. Len(m) = Len(q) + 1 /\ Len(n) = Len(q) + 1
  BY <1>1, <1>2, <1>3, <1>4, <1>5
<1>8. m = n
  BY <1>4, <1>5, <1>6, <1>7, SeqEqual
<1>. QED  BY <1>8 DEF m, n, a, c

\* Who waits for other calls only is still in the queue as it was.
LEMMA CallsStay ==
  ASSUME NEW q \in Seq(PCB), NEW w, NEW v, \A x \in Range(q) : v[x] = w[x]
  PROVE  Calls(q, v) = Calls(q, w)
<1>1. \A i \in 1 .. Len(q) : q[i] \in Range(q)
  BY RangeEquality
<1>. QED  BY <1>1 DEF Calls, CallOf

\* The call that has waited longest leaves.
LEMMA CallsTail ==
  ASSUME NEW q \in Seq(PCB), NEW w \in [PCB -> {0, 1}], q # <<>>
  PROVE  Calls(q, w) # <<>> /\ Calls(Tail(q), w) = Tail(Calls(q, w))
<1>. DEFINE t == Tail(q)
            m == Calls(t, w)
            c == Calls(q, w)
            n == Tail(c)
<1>1. /\ t \in Seq(PCB) /\ Len(t) = Len(q) - 1 /\ \A i \in 1 .. Len(t) : t[i] = q[i + 1]
      /\ Len(q) \in Nat /\ Len(q) # 0
  BY HeadTailProperties, LenProperties, EmptySeq
<1>2. /\ c \in Seq(Waiting) /\ Len(c) = Len(q)
      /\ \A i \in 1 .. Len(q) : c[i] = CallOf(q[i], w)
  BY CallsType
<1>. HIDE DEF t, c
<1>3. c # <<>>
  BY <1>1, <1>2, EmptySeq
<1>4. /\ n \in Seq(Waiting) /\ Len(n) = Len(c) - 1
      /\ \A i \in 1 .. Len(n) : n[i] = c[i + 1]
  BY <1>2, <1>3, HeadTailProperties
<1>5. /\ m \in Seq(Waiting) /\ Len(m) = Len(t)
      /\ \A i \in 1 .. Len(t) : m[i] = CallOf(t[i], w)
  BY <1>1, CallsType
<1>. HIDE DEF m, n
<1>6. ASSUME NEW i \in 1 .. Len(q) - 1 PROVE m[i] = n[i]
  <2>1. i + 1 \in 1 .. Len(q)
    BY <1>1
  <2>2. m[i] = CallOf(q[i + 1], w)
    BY <1>1, <1>5
  <2>3. n[i] = c[i + 1]
    BY <1>2, <1>4
  <2>. QED  BY <1>2, <2>1, <2>2, <2>3
<1>7. Len(m) = Len(q) - 1 /\ Len(n) = Len(q) - 1
  BY <1>1, <1>2, <1>4, <1>5
<1>8. m = n
  BY <1>4, <1>5, <1>6, <1>7, SeqEqual
<1>. QED  BY <1>3, <1>8 DEF m, n, t, c

\* What is not in a queue cannot be taken out of it.
LEMMA RemoveAbsent ==
  ASSUME NEW q, NEW e, \A i \in 1 .. Len(q) : q[i] # e
  PROVE  RemoveFirst(q, e) = q
BY DEF RemoveFirst

\* A process that is killed takes its call with it, whichever it was.
LEMMA CallsRemove ==
  ASSUME NEW q \in Seq(PCB), NEW w \in [PCB -> {0, 1}], NEW p \in PCB, IsInjective(q)
  PROVE  Calls(RemoveFirst(q, p), w)
           = RemoveFirst(RemoveFirst(Calls(q, w), <<p, 0>>), <<p, 1>>)
<1>. DEFINE c == Calls(q, w)
<1>1. /\ Len(q) \in Nat /\ \A i \in 1 .. Len(q) : q[i] \in PCB
      /\ \A i, j \in 1 .. Len(q) : q[i] = q[j] => i = j
  BY LenProperties, ElementOfSeq DEF IsInjective
<1>2. /\ c \in Seq(Waiting) /\ Len(c) = Len(q)
      /\ \A i \in 1 .. Len(q) : c[i] = <<q[i], w[q[i]]>>
  BY CallsType DEF CallOf
<1>. HIDE DEF c
<1>3. CASE \A i \in 1 .. Len(q) : q[i] # p
  <2>1. RemoveFirst(q, p) = q
    BY <1>3, RemoveAbsent
  <2>2. \A i \in 1 .. Len(c) : c[i] # <<p, 0>> /\ c[i] # <<p, 1>>
    BY <1>2, <1>3
  <2>3. RemoveFirst(c, <<p, 0>>) = c /\ RemoveFirst(c, <<p, 1>>) = c
    BY <2>2, RemoveAbsent
  <2>. QED  BY <2>1, <2>3 DEF c
<1>4. CASE \E i \in 1 .. Len(q) : q[i] = p
  <2>1. PICK n \in 1 .. Len(q) : q[n] = p
    BY <1>4
  <2>. DEFINE r == RemoveFirst(q, p)
              s == RemoveFirst(c, c[n])
              m == Calls(r, w)
  <2>2. /\ r \in Seq(PCB) /\ Len(r) = Len(q) - 1
        /\ \A i \in 1 .. Len(q) - 1 : r[i] = (IF i < n THEN q[i] ELSE q[i + 1])
    BY <1>1, <2>1, RemoveAtPlace
  <2>3. c[n] = <<p, w[p]>> /\ \A i \in 1 .. Len(q) : c[i] = c[n] => i = n
    BY <1>1, <1>2, <2>1
  <2>4. /\ s \in Seq(Waiting) /\ Len(s) = Len(q) - 1
        /\ \A i \in 1 .. Len(q) - 1 : s[i] = (IF i < n THEN c[i] ELSE c[i + 1])
    <3>1. c \in Seq(Waiting) /\ n \in 1 .. Len(c) /\ Len(c) = Len(q)
          /\ \A i \in 1 .. Len(c) : c[i] = c[n] => i = n
      BY <1>2, <2>3
    <3>2. /\ s \in Seq(Waiting) /\ Len(s) = Len(c) - 1
          /\ \A i \in 1 .. Len(c) - 1 : s[i] = (IF i < n THEN c[i] ELSE c[i + 1])
      BY <3>1, RemoveAtPlace
    <3>. QED  BY <3>1, <3>2
  <2>. HIDE DEF r, s
  <2>5. /\ m \in Seq(Waiting) /\ Len(m) = Len(r)
        /\ \A i \in 1 .. Len(r) : m[i] = <<r[i], w[r[i]]>>
    BY <2>2, CallsType DEF CallOf
  <2>. HIDE DEF m
  <2>6. ASSUME NEW i \in 1 .. Len(q) - 1 PROVE m[i] = s[i]
    <3>1. i \in 1 .. Len(q) /\ i + 1 \in 1 .. Len(q)
      BY <1>1
    <3>2. m[i] = <<r[i], w[r[i]]>>
      BY <2>2, <2>5
    <3>3. CASE i < n
      BY <1>2, <2>2, <2>4, <3>1, <3>2, <3>3
    <3>4. CASE ~(i < n)
      <4>1. r[i] = q[i + 1] /\ s[i] = c[i + 1]
        BY <2>2, <2>4, <3>4
      <4>2. c[i + 1] = <<q[i + 1], w[q[i + 1]]>>
        BY <1>2, <3>1
      <4>. QED  BY <3>2, <4>1, <4>2
    <3>. QED  BY <3>3, <3>4
  <2>7. m = s
    <3>1. m \in Seq(Waiting) /\ s \in Seq(Waiting)
      BY <2>4, <2>5
    <3>2. Len(m) = Len(s) /\ \A i \in 1 .. Len(m) : m[i] = s[i]
      BY <2>2, <2>4, <2>5, <2>6
    <3>. QED  BY <3>1, <3>2, SeqEqual
  <2>8. \A i \in 1 .. Len(s) : s[i] # <<p, 1 - w[p]>> /\ s[i] # <<p, w[p]>>
    <3>1. ASSUME NEW i \in 1 .. Len(q) - 1 PROVE r[i] # p
      <4>1. i \in 1 .. Len(q) /\ i + 1 \in 1 .. Len(q) /\ (i < n \/ i + 1 # n)
        BY <1>1
      <4>2. i < n => i # n
        BY <1>1
      <4>3. (r[i] = q[i] /\ i # n) \/ (r[i] = q[i + 1] /\ i + 1 # n)
        BY <2>2, <4>1, <4>2
      <4>. QED  BY <1>1, <2>1, <4>1, <4>3
    <3>2. ASSUME NEW i \in 1 .. Len(q) - 1 PROVE s[i] = <<r[i], w[r[i]]>>
      BY <2>2, <2>5, <2>7
    <3>3. ASSUME NEW i \in 1 .. Len(q) - 1, NEW b PROVE s[i] # <<p, b>>
      BY <3>1, <3>2
    <3>4. ASSUME NEW i \in 1 .. Len(s) PROVE s[i] # <<p, 1 - w[p]>> /\ s[i] # <<p, w[p]>>
      <4>1. i \in 1 .. Len(q) - 1
        BY <2>4
      <4>2. s[i] # <<p, 1 - w[p]>>
        BY <3>3, <4>1
      <4>3. s[i] # <<p, w[p]>>
        BY <3>3, <4>1
      <4>. QED  BY <4>2, <4>3
    <3>. QED  BY <3>4
  <2>9. \A i \in 1 .. Len(c) : c[i] # <<p, 1 - w[p]>>
    <3>1. ASSUME NEW i \in 1 .. Len(q), q[i] = p PROVE w[q[i]] # 1 - w[p]
      <4>1. w[p] \in {0, 1}
        OBVIOUS
      <4>. QED  BY <3>1, <4>1
    <3>. QED  BY <1>2, <3>1
  <2>10. RemoveFirst(c, <<p, 1 - w[p]>>) = c
    BY <2>9, RemoveAbsent
  <2>11. RemoveFirst(s, <<p, 1 - w[p]>>) = s
    BY <2>8, RemoveAbsent
  <2>12. s = RemoveFirst(c, <<p, w[p]>>)
    BY <2>3 DEF s
  <2>13. CASE w[p] = 0
    BY <2>7, <2>11, <2>12, <2>13 DEF m, r, c
  <2>14. CASE w[p] = 1
    BY <2>7, <2>10, <2>12, <2>14 DEF m, r, c
  <2>. QED  BY <2>13, <2>14
<1>. QED  BY <1>3, <1>4

-----------------------------------------------------------------------------
(* The history variables follow the steps *)

\* What the two tests have found is so until the call takes effect.
Agrees(c) ==
  /\ cpu[c].pc = "block" => val[cpu[c].sem] = cpu[c].at
  /\ cpu[c].pc \in {"test2", "pass"} => val[cpu[c].sem] # cpu[c].at

HistoryInv ==
  /\ want \in [PCB -> {0, 1}] /\ CreditConserved /\ NoLostWakeup
  /\ \A c \in CPU : Separate(c) /\ Agrees(c)


LEMMA HistoryStep ==
  ASSUME Uniprocessor, want \in [PCB -> {0, 1}], HNext, NEW c \in CPU
  PROVE  /\ ~Blocked(c) => want' = want
         /\ Blocked(c) /\ current[c] \in PCB => want' = [want EXCEPT ![current[c]] = cpu[c].at]
         /\ \A s \in Sem : ~Completed(c, s) => credit'[s] = credit[s]
         /\ \A s \in Sem : Completed(c, s) => credit'[s] = Clip(credit[s] + Gain(c, s))
<1>1. \A i \in CPU : i = c
  BY DEF Uniprocessor
<1>2. ASSUME Blocked(c) PROVE (CHOOSE i \in CPU : Blocked(i)) = c
  <2>1. (CHOOSE i \in CPU : Blocked(i)) \in CPU
    BY <1>2
  <2>. QED  BY <1>1, <2>1
<1>3. ASSUME NEW s \in Sem, Completed(c, s) PROVE (CHOOSE i \in CPU : Completed(i, s)) = c
  <2>1. (CHOOSE i \in CPU : Completed(i, s)) \in CPU
    BY <1>3
  <2>. QED  BY <1>1, <2>1
<1>4. want' = [p \in PCB |->
         IF \E i \in CPU : Blocked(i) /\ current[i] = p
           THEN cpu[CHOOSE i \in CPU : Blocked(i)].at ELSE want[p]]
  BY DEF HNext
<1>5. credit' = [s \in Sem |->
         IF \E i \in CPU : Completed(i, s)
           THEN Clip(credit[s] + Gain(CHOOSE i \in CPU : Completed(i, s), s))
           ELSE credit[s]]
  BY DEF HNext
<1>6. ~Blocked(c) => want' = want
  BY <1>1, <1>4
<1>7. ASSUME Blocked(c), current[c] \in PCB
      PROVE  want' = [want EXCEPT ![current[c]] = cpu[c].at]
  BY <1>1, <1>2, <1>4, <1>7
<1>8. ASSUME NEW s \in Sem
      PROVE  /\ ~Completed(c, s) => credit'[s] = credit[s]
             /\ Completed(c, s) => credit'[s] = Clip(credit[s] + Gain(c, s))
  BY <1>1, <1>3, <1>5
<1>. QED  BY <1>6, <1>7, <1>8

\* The semaphores, the waiters and the set of the processes are as they were.
Still == val' = val /\ Live' = Live /\ \A s \in Sem : semq'[s] = semq[s]

\* All other steps leave them alone, and are no part of the history.
Works(c) == Block(c) \/ Pass(c) \/ Create(c) \/ KillOne(c)

LEMMA StillStep ==
  ASSUME TypeOK, LocalsHold, NEW c \in CPU, Separate(c),
         Schedule(c) \/ Call(c) \/ Handle(c) \/ Interrupt(c), ~Works(c)
  PROVE  Still
<1>. USE DEF Still, Live
<1>1. CASE Schedule(c)
  BY <1>1 DEF Schedule, Dispatch, Load, Wait, Halt, kernel, lists
<1>2. CASE Call(c)
  BY <1>2, CallFlow DEF kernel, lists
<1>3. CASE TakeInterrupt(c) \/ ReadBitmap(c) \/ Preempt(c)
  BY <1>3 DEF TakeInterrupt, ReadBitmap, Preempt, kernel, lists
<1>4. CASE \/ CreateFails(c) \/ FirstTest(c) \/ SecondTest(c) \/ Save(c) \/ Clear(c)
           \/ Command(c) \/ Term(c) \/ TermPid(c) \/ SearchFaults(c) \/ EndKill(c)
  BY <1>4 DEF CreateFails, FirstTest, SecondTest, Save, Clear, Command, Term, TermPid,
     SearchFaults, EndKill, kernel, lists
<1>5. ASSUME NEW k \in Key \ Sem, NEW q, semq' = [semq EXCEPT ![k] = q]
      PROVE  \A s \in Sem : semq'[s] = semq[s]
  BY <1>5 DEF TypeOK
<1>6. CLOCK \in Key \ Sem /\ \A d \in Dev : d \in Key \ Sem
  BY KeyAssumption DEF Key
<1>7. CASE Tick(c)
  BY <1>5, <1>6, <1>7 DEF Tick
<1>8. CASE ServeInterrupt(c)
  <2>1. cpu[c].sem \in Dev \cup {NoDev}
    BY <1>8 DEF ServeInterrupt, Separate
  <2>2. CASE semq' = semq
    BY <1>8, <2>2 DEF ServeInterrupt
  <2>3. CASE semq' # semq
    <3>1. cpu[c].sem # NoDev /\ Wake(cpu[c].sem)
      BY <1>8, <2>3 DEF ServeInterrupt, Unblock
    <3>. QED  BY <1>5, <1>6, <1>8, <2>1, <3>1 DEF ServeInterrupt, Wake
  <2>. QED  BY <2>2, <2>3
<1>9. CASE ClockWait(c) \/ DoIO(c)
  <2>1. cpu[c].pc \in {"clockwait", "doio"} /\ (DoIO(c) => cpu[c].sem \in Dev)
    BY <1>9 DEF ClockWait, DoIO, Separate
  <2>2. PICK k \in Key \ Sem : semq' = semq \/ InsertBlocked(k, cpu[c].caller)
    BY <1>6, <1>9, <2>1 DEF ClockWait, DoIO
  <2>3. \A s \in Sem : semq'[s] = semq[s]
    BY <1>5, <2>2 DEF InsertBlocked
  <2>. QED  BY <1>9, <2>3 DEF ClockWait, DoIO
<1>. QED  BY <1>1, <1>2, <1>3, <1>4, <1>7, <1>8, <1>9 DEF Handle, Interrupt, Works

LEMMA QuietStep ==
  ASSUME TypeOK, LocalsHold, NEW c \in CPU,
         Schedule(c) \/ Call(c) \/ Handle(c) \/ Interrupt(c)
  PROVE  (Blocked(c) => Block(c)) /\ \A s \in Sem : Completed(c, s) => Pass(c)
<1>1. CASE Schedule(c) \/ Call(c) \/ Interrupt(c)
  BY <1>1, ScheduleFlow, CallFlow, InterruptFlow
     DEF Schedule, Interrupt, Goes, Blocked, Completed
<1>2. CASE Handle(c)
  BY <1>2, HandleFlow, KillFlow DEF Handle, Goes, Killing, Blocked, Completed
<1>. QED  BY <1>1, <1>2

\* On one CPU nobody comes between the tests and the call.
LEMMA StepAgrees ==
  ASSUME Uniprocessor, TypeOK, LocalsHold, NEW c \in CPU, Agrees(c),
         Schedule(c) \/ Call(c) \/ Handle(c) \/ Interrupt(c)
  PROVE  Agrees(c)'
<1>1. cpu[c] \in Locals
  BY DEF TypeOK
<1>2. CASE FirstTest(c)
  <2>1. /\ cpu'[c].sem = cpu[c].sem /\ cpu'[c].at = cpu[c].at /\ val' = val
        /\ cpu'[c].pc = IF val[cpu[c].sem] = cpu[c].at THEN "block" ELSE "test2"
    BY <1>1, <1>2 DEF FirstTest, Move, TypeOK, Locals, kernel
  <2>. QED  BY <2>1 DEF Agrees
<1>3. CASE SecondTest(c)
  <2>1. /\ cpu'[c].sem = cpu[c].sem /\ cpu'[c].at = cpu[c].at /\ val' = val
        /\ cpu'[c].pc = IF val[cpu[c].sem] # cpu[c].at THEN "pass" ELSE "wild"
    BY <1>1, <1>3 DEF SecondTest, Move, TypeOK, Locals, kernel
  <2>. QED  BY <2>1 DEF Agrees
<1>4. CASE Schedule(c) \/ Call(c) \/ Interrupt(c)
  <2>. cpu'[c].pc \notin {"block", "test2", "pass"}
    BY <1>4, ScheduleFlow, CallFlow, InterruptFlow DEF Schedule, Interrupt, Goes
  <2>. QED  BY DEF Agrees
<1>5. CASE Handle(c) /\ ~FirstTest(c) /\ ~SecondTest(c)
  <2>. cpu'[c].pc \notin {"block", "test2", "pass"}
    BY <1>5, HandleFlow, KillFlow DEF Handle, Goes, Killing
  <2>. QED  BY DEF Agrees
<1>. QED  BY <1>2, <1>3, <1>4, <1>5

-----------------------------------------------------------------------------
(* One call after the other: each step, and what it is of AtomicSemaphore *)

\* The queues of the blocked calls.
Queues == [s \in Sem |-> Calls(semq[s], want)]

\* The step keeps what the history says.
Accounts ==
  want' \in [PCB -> {0, 1}] /\ CreditConserved' /\ NoLostWakeup'

LEMMA StillHistory ==
  ASSUME TypeOK, TypeOK', HistoryInv, Still, want' = want,
         \A s \in Sem : credit'[s] = credit[s], credit' = [s \in Sem |-> credit'[s]]
  PROVE  Accounts /\ UNCHANGED <<val, Queues, Live>>
<1>1. credit' = credit
  BY DEF HistoryInv, CreditConserved, TypeOK
<1>2. Accounts
  BY <1>1 DEF Accounts, HistoryInv, CreditConserved, NoLostWakeup, Still
<1>3. Queues' = Queues
  BY DEF Queues, Still
<1>. QED  BY <1>2, <1>3 DEF Still

LEMMA BlockHistory ==
  ASSUME Inv, TypeOK', HistoryInv, NEW c \in CPU, Block(c),
         want' = [want EXCEPT ![current[c]] = cpu[c].at],
         \A s \in Sem : credit'[s] = credit[s], credit' = [s \in Sem |-> credit'[s]]
  PROVE  Accounts /\ \E p \in Live, s \in Sem, op \in {0, 1} :
           /\ val[s] = op /\ Queues' = [Queues EXCEPT ![s] = Append(@, <<p, op>>)]
           /\ UNCHANGED <<val, Live>>
<1>. DEFINE p == current[c]
            s == cpu[c].sem
            op == cpu[c].at
<1>1. /\ TypeOK /\ InOneList /\ Valid(c) /\ cpu[c].pc = "block" /\ op \in {0, 1}
      /\ s \in Sem /\ val[s] = op
  BY DEF Inv, LocalsHold, Block, HistoryInv, Separate, Agrees, TypeOK, Locals
<1>2. p # NULL /\ p \in Live /\ ~Queued(p) /\ p \in PCB
  BY <1>1 DEF Valid, Handlers, Window, Inv, RunByOne, Executing, Live
<1>3. /\ semq' = [semq EXCEPT ![s] = Append(@, p)] /\ val' = val /\ Live' = Live
  BY <1>2 DEF Block, InsertBlocked, Live
<1>4. /\ s \in Key /\ semq \in [Key -> Seq(PCB)] /\ want \in [PCB -> {0, 1}]
      /\ want' = [want EXCEPT ![p] = op]
  BY <1>1 DEF HistoryInv, TypeOK, Key
<1>. HIDE DEF p, s, op
<1>5. \A k \in Key : semq[k] \in Seq(PCB) /\ p \notin Range(semq[k])
  BY <1>2, <1>4 DEF Queued
<1>6. /\ want' \in [PCB -> {0, 1}] /\ want'[p] = op
      /\ \A k \in Key : \A x \in Range(semq[k]) : want'[x] = want[x]
  <2>1. want' \in [PCB -> {0, 1}] /\ want'[p] = op /\ \A x \in PCB \ {p} : want'[x] = want[x]
    BY <1>1, <1>2, <1>4
  <2>2. \A k \in Key : \A x \in Range(semq[k]) : x \in PCB
    BY <1>5, ElementOfSeq, RangeEquality
  <2>. QED  BY <1>5, <2>1, <2>2
<1>7. Range(semq'[s]) = Range(semq[s]) \cup {p}
  BY <1>2, <1>3, <1>4, <1>5, AppendToQueue
<1>8. Accounts
  <2>1. CreditConserved'
    BY <1>1, <1>3 DEF HistoryInv, CreditConserved, TypeOK
  <2>2. ASSUME NEW t \in Sem, NEW x \in Range(semq'[t]) PROVE want'[x] = val'[t]
    <3>0. t \in Key
      BY DEF Key
    <3>1. CASE t = s /\ x = p
      BY <1>1, <1>3, <1>6, <3>1
    <3>2. CASE ~(t = s /\ x = p)
      <4>1. x \in Range(semq[t])
        BY <1>3, <1>4, <1>7, <2>2, <3>0, <3>2
      <4>. QED  BY <1>3, <1>6, <3>0, <4>1 DEF HistoryInv, NoLostWakeup
    <3>. QED  BY <3>1, <3>2
  <2>. QED  BY <1>6, <2>1, <2>2 DEF Accounts, NoLostWakeup
<1>9. ASSUME NEW t \in Sem
      PROVE  Queues'[t] = (IF t = s THEN Append(Queues[t], <<p, op>>) ELSE Queues[t])
  <2>0. t \in Key /\ Queues'[t] = Calls(semq'[t], want') /\ Queues[t] = Calls(semq[t], want)
    BY DEF Key, Queues
  <2>q. semq[t] \in Seq(PCB) /\ \A x \in Range(semq[t]) : want'[x] = want[x]
    BY <1>5, <1>6, <2>0
  <2>p. p \in PCB /\ want \in [PCB -> {0, 1}] /\ want' \in [PCB -> {0, 1}]
    BY <1>2, <1>4, <1>6
  <2>1. CASE t = s
    <3>1. semq'[t] = Append(semq[t], p)
      BY <1>3, <1>4, <2>1
    <3>2. Calls(Append(semq[t], p), want') = Append(Calls(semq[t], want'), CallOf(p, want'))
      BY <2>p, <2>q, CallsAppend
    <3>3. Calls(semq[t], want') = Calls(semq[t], want)
      BY <2>q, CallsStay
    <3>4. CallOf(p, want') = <<p, op>>
      BY <1>6 DEF CallOf
    <3>. QED  BY <2>0, <2>1, <3>1, <3>2, <3>3, <3>4
  <2>2. CASE t # s
    <3>1. semq'[t] = semq[t]
      BY <1>3, <1>4, <2>0, <2>2
    <3>2. Calls(semq[t], want') = Calls(semq[t], want)
      BY <2>q, CallsStay
    <3>. QED  BY <2>0, <2>2, <3>1, <3>2
  <2>. QED  BY <2>1, <2>2
<1>10. Queues' = [Queues EXCEPT ![s] = Append(@, <<p, op>>)]
  BY <1>1, <1>9 DEF Queues
<1>. QED  BY <1>1, <1>2, <1>3, <1>8, <1>10

LEMMA PassHistory ==
  ASSUME Inv, TypeOK', HistoryInv, NEW c \in CPU, Pass(c), want' = want,
         credit' = [s \in Sem |-> credit'[s]],
         \A s \in Sem : ~Completed(c, s) => credit'[s] = credit[s],
         \A s \in Sem : Completed(c, s) => credit'[s] = Clip(credit[s] + Gain(c, s))
  PROVE  Accounts /\ \E s \in Sem, op \in {0, 1} :
           /\ val[s] # op /\ Live' = Live
           /\ \/ /\ Queues[s] # <<>> /\ Queues' = [Queues EXCEPT ![s] = Tail(@)]
                 /\ val' = val
              \/ /\ Queues[s] = <<>> /\ val' = [val EXCEPT ![s] = op]
                 /\ Queues' = Queues
<1>. DEFINE s == cpu[c].sem
            op == cpu[c].at
<1>1. /\ TypeOK /\ InOneList /\ cpu[c].pc = "pass" /\ op \in {0, 1}
      /\ s \in Sem /\ val[s] # op /\ val \in [Sem -> {0, 1}] /\ credit = val
  BY DEF Inv, Pass, HistoryInv, Separate, Agrees, TypeOK, Locals, CreditConserved
<1>2. Live' = Live /\ cpu'[c].pc = "run" /\ Release(s, op)
  BY <1>1, MoveFacts DEF Pass, Live
<1>3. \A t \in Sem : Completed(c, t) <=> t = s
  BY <1>1, <1>2 DEF Completed
<1>4. /\ \A t \in Sem \ {s} : credit'[t] = credit[t]
      /\ credit'[s] = Clip(credit[s] + Gain(c, s))
  BY <1>1, <1>3
<1>5. /\ s \in Key /\ semq \in [Key -> Seq(PCB)] /\ want \in [PCB -> {0, 1}]
      /\ \A k \in Key : semq[k] \in Seq(PCB) /\ IsInjective(semq[k])
      /\ \A t \in Sem : t \in Key
  BY <1>1 DEF HistoryInv, TypeOK, Key, InOneList
<1>6. Gain(c, s) = Weight(op) + (IF semq[s] = <<>> THEN 0 ELSE Weight(want[Head(semq[s])]))
  BY DEF Gain
<1>. HIDE DEF s, op
<1>7. CASE semq[s] # <<>>
  <2>1. Wake(s) /\ val' = val
    BY <1>2, <1>7 DEF Release
  <2>2. semq' = [semq EXCEPT ![s] = Tail(@)]
    BY <2>1 DEF Wake
  <2>3. Head(semq[s]) \in Range(semq[s]) /\ Range(Tail(semq[s])) \subseteq Range(semq[s])
    BY <1>5, <1>7, TailOfQueue
  <2>4. want[Head(semq[s])] = val[s]
    BY <1>1, <2>3 DEF HistoryInv, NoLostWakeup
  <2>5. credit'[s] = credit[s]
    <3>1. Gain(c, s) = Weight(op) + Weight(val[s])
      BY <1>6, <1>7, <2>4
    <3>2. Weight(op) + Weight(val[s]) = 0
      BY <1>1 DEF Weight
    <3>3. val[s] \in {0, 1} /\ credit[s] = val[s]
      BY <1>1
    <3>. QED  BY <1>4, <3>1, <3>2, <3>3 DEF Clip
  <2>6. credit' = val'
    BY <1>1, <1>4, <2>1, <2>5
  <2>7. Accounts
    <3>1. ASSUME NEW t \in Sem PROVE Range(semq'[t]) \subseteq Range(semq[t])
      BY <1>5, <2>2, <2>3
    <3>2. want' \in [PCB -> {0, 1}]
      BY <1>5
    <3>3. NoLostWakeup'
      BY <2>1, <3>1 DEF HistoryInv, NoLostWakeup
    <3>. QED  BY <2>6, <3>2, <3>3 DEF Accounts, CreditConserved
  <2>8. Queues[s] # <<>> /\ Calls(Tail(semq[s]), want) = Tail(Queues[s])
    <3>1. Queues[s] = Calls(semq[s], want)
      BY <1>1 DEF Queues
    <3>. QED  BY <1>5, <1>7, <3>1, CallsTail
  <2>9. ASSUME NEW t \in Sem
        PROVE  Queues'[t] = (IF t = s THEN Tail(Queues[t]) ELSE Queues[t])
    <3>1. Queues'[t] = Calls(semq'[t], want) /\ Queues[t] = Calls(semq[t], want)
      BY DEF Queues
    <3>. QED  BY <1>5, <2>2, <2>8, <3>1
  <2>10. Queues' = [Queues EXCEPT ![s] = Tail(@)]
    BY <1>1, <2>9 DEF Queues
  <2>. QED  BY <1>1, <1>2, <2>1, <2>7, <2>8, <2>10
<1>8. CASE semq[s] = <<>>
  <2>1. val' = [val EXCEPT ![s] = op] /\ semq' = semq
    BY <1>2, <1>8 DEF Release
  <2>2. credit'[s] = op
    <3>1. Gain(c, s) = Weight(op)
      BY <1>1, <1>6, <1>8 DEF Weight
    <3>2. val[s] + Weight(op) = op
      BY <1>1 DEF Weight
    <3>3. credit[s] = val[s]
      BY <1>1
    <3>. QED  BY <1>1, <1>4, <3>1, <3>2, <3>3 DEF Clip
  <2>3. credit' = val'
    BY <1>1, <1>4, <2>1, <2>2
  <2>4. Accounts
    <3>1. ASSUME NEW t \in Sem, NEW x \in Range(semq'[t]) PROVE want'[x] = val'[t]
      <4>1. t # s
        BY <1>8, <2>1, <3>1 DEF Range
      <4>. QED  BY <1>1, <2>1, <3>1, <4>1 DEF HistoryInv, NoLostWakeup
    <3>. QED  BY <1>5, <2>3, <3>1 DEF Accounts, CreditConserved, NoLostWakeup
  <2>5. Queues[s] = <<>> /\ Queues' = Queues
    BY <1>1, <1>8, <2>1, NoCalls DEF Queues
  <2>. QED  BY <1>1, <1>2, <2>1, <2>4, <2>5
<1>. QED  BY <1>7, <1>8

LEMMA CreateHistory ==
  ASSUME Inv, TypeOK', HistoryInv, NEW c \in CPU, Create(c), want' = want,
         \A s \in Sem : credit'[s] = credit[s], credit' = [s \in Sem |-> credit'[s]]
  PROVE  Accounts /\ \E p \in PCB :
           p \notin Live /\ Live' = Live \cup {p} /\ UNCHANGED <<val, Queues>>
<1>1. PICK p \in pcbFree : pcbFree' = pcbFree \ {p}
  BY DEF Create
<1>2. p \in PCB /\ p \notin Live /\ Live' = Live \cup {p} /\ semq' = semq /\ val' = val
  BY <1>1 DEF Create, Inv, TypeOK, Live
<1>3. credit' = credit
  BY DEF HistoryInv, CreditConserved, Inv, TypeOK
<1>4. Accounts /\ Queues' = Queues
  BY <1>2, <1>3 DEF Accounts, HistoryInv, CreditConserved, NoLostWakeup, Queues
<1>. QED  BY <1>2, <1>4

LEMMA KillHistory ==
  ASSUME Inv, TypeOK', HistoryInv, NEW c \in CPU, KillOne(c), want' = want,
         \A s \in Sem : credit'[s] = credit[s], credit' = [s \in Sem |-> credit'[s]]
  PROVE  Accounts /\ \E p \in Live :
           /\ Live' = Live \ {p} /\ val' = val
           /\ Queues' = [s \in Sem |->
                RemoveFirst(RemoveFirst(Queues[s], <<p, 0>>), <<p, 1>>)]
<1>1. TypeOK /\ InOneList /\ LinksLive /\ Valid(c)
  BY DEF Inv, LocalsHold
<1>2. PICK p \in Subtree(parent, cpu[c].victim) : RemovePcb(c, p)
  BY DEF KillOne
<1>3. p \in Live /\ p \in PCB
  <2>1. cpu[c].victim \in Live
    BY <1>1 DEF KillOne, Valid
  <2>. QED  BY <1>1, <1>2, <2>1, SubtreeIsLive DEF Live
<1>4. Live' = Live \ {p} /\ val' = val /\ Detach(p)
  BY <1>2 DEF RemovePcb, KillOne, Live
<1>5. credit' = credit
  BY <1>1 DEF HistoryInv, CreditConserved, TypeOK
<1>6. Accounts
  <2>1. ASSUME NEW s \in Sem PROVE Range(semq'[s]) \subseteq Range(semq[s])
    BY <1>1, <1>3, <1>4, DetachQueue DEF Key
  <2>2. NoLostWakeup'
    BY <1>4, <2>1 DEF HistoryInv, NoLostWakeup
  <2>. QED  BY <1>4, <1>5, <2>2 DEF Accounts, HistoryInv, CreditConserved
<1>7. ASSUME NEW s \in Sem
      PROVE  Queues'[s] = RemoveFirst(RemoveFirst(Queues[s], <<p, 0>>), <<p, 1>>)
  <2>1. /\ s \in Key /\ semq[s] \in Seq(PCB) /\ IsInjective(semq[s])
        /\ want \in [PCB -> {0, 1}]
    BY <1>1, OneListFacts DEF Key, HistoryInv
  <2>2. semq'[s] = RemoveFirst(semq[s], p)
    <3>1. CASE s = semAdd[p]
      BY <1>4, <2>1, <3>1 DEF Detach
    <3>2. CASE s # semAdd[p]
      <4>1. p \notin Range(semq[s])
        BY <1>1, <2>1, <3>2 DEF InOneList
      <4>2. \A i \in 1 .. Len(semq[s]) : semq[s][i] # p
        BY <2>1, <4>1, RangeEquality
      <4>3. RemoveFirst(semq[s], p) = semq[s]
        BY <4>2, RemoveAbsent
      <4>. QED  BY <1>4, <2>1, <3>2, <4>3 DEF Detach
    <3>. QED  BY <3>1, <3>2
  <2>3. Queues'[s] = Calls(semq'[s], want) /\ Queues[s] = Calls(semq[s], want)
    BY DEF Queues
  <2>. QED  BY <1>3, <2>1, <2>2, <2>3, CallsRemove
<1>8. Queues' = [s \in Sem |-> RemoveFirst(RemoveFirst(Queues[s], <<p, 0>>), <<p, 1>>)]
  BY <1>7 DEF Queues
<1>. QED  BY <1>3, <1>4, <1>6, <1>8

LEMMA InitHistory == HInit => HistoryInv
<1>. SUFFICES ASSUME HInit PROVE HistoryInv
  OBVIOUS
<1>1. \A c \in CPU : cpu[c].pc = "sched"
  BY DEF HInit, Init, Forget, Local
<1>2. \A s \in Sem : semq[s] = <<>>
  BY DEF HInit, Init, Key
<1>3. NoLostWakeup
  BY <1>2 DEF NoLostWakeup, Range
<1>. QED  BY <1>1, <1>3 DEF HInit, HistoryInv, CreditConserved, Separate, Agrees

\* What a step of the nucleus with its history is of the atomic calls.
AtomicStep ==
  \/ UNCHANGED <<val, Queues, Live>>
  \/ \E p \in Live, s \in Sem, op \in {0, 1} :
       /\ val[s] = op /\ Queues' = [Queues EXCEPT ![s] = Append(@, <<p, op>>)]
       /\ UNCHANGED <<val, Live>>
  \/ \E s \in Sem, op \in {0, 1} :
       /\ val[s] # op /\ Live' = Live
       /\ \/ /\ Queues[s] # <<>> /\ Queues' = [Queues EXCEPT ![s] = Tail(@)]
             /\ val' = val
          \/ /\ Queues[s] = <<>> /\ val' = [val EXCEPT ![s] = op]
             /\ Queues' = Queues
  \/ \E p \in PCB : p \notin Live /\ Live' = Live \cup {p} /\ UNCHANGED <<val, Queues>>
  \/ \E p \in Live :
       /\ Live' = Live \ {p} /\ val' = val
       /\ Queues' = [s \in Sem |->
            RemoveFirst(RemoveFirst(Queues[s], <<p, 0>>), <<p, 1>>)]

LEMMA NextHistory ==
  ASSUME Uniprocessor, Inv, TypeOK', HistoryInv, HNext
  PROVE  HistoryInv' /\ AtomicStep
<1>t. /\ TypeOK /\ LocalsHold /\ want \in [PCB -> {0, 1}]
      /\ \A c \in CPU : Separate(c) /\ Agrees(c)
  BY DEF Inv, HistoryInv
<1>f. credit' = [s \in Sem |-> credit'[s]]
  BY DEF HNext
<1>1. ASSUME UNCHANGED <<cpu, val, pcbFree, semq>> PROVE HistoryInv' /\ AtomicStep
  <2>1. PICK c \in CPU : TRUE
    BY CpuAssumption
  <2>2. ~Blocked(c) /\ \A s \in Sem : ~Completed(c, s)
    BY <1>1 DEF Blocked, Completed
  <2>3. want' = want /\ \A s \in Sem : credit'[s] = credit[s]
    BY <1>t, <2>2, HistoryStep
  <2>4. Accounts /\ UNCHANGED <<val, Queues, Live>>
    BY <1>t, <1>f, <1>1, <2>3, StillHistory DEF Still, Live
  <2>5. \A i \in CPU : Separate(i)' /\ Agrees(i)'
    BY <1>t, <1>1 DEF Separate, Agrees
  <2>. QED  BY <2>4, <2>5 DEF HistoryInv, AtomicStep, Accounts
<1>2. ASSUME NEW c \in CPU, Schedule(c) \/ Call(c) \/ Handle(c) \/ Interrupt(c)
      PROVE  HistoryInv' /\ AtomicStep
  <2>1. \A i \in CPU : Separate(i)' /\ Agrees(i)'
    BY <1>t, <1>2, StepSeparate, StepAgrees DEF Uniprocessor
  <2>2. /\ ~Blocked(c) => want' = want
        /\ Blocked(c) /\ current[c] \in PCB =>
             want' = [want EXCEPT ![current[c]] = cpu[c].at]
        /\ \A s \in Sem : ~Completed(c, s) => credit'[s] = credit[s]
        /\ \A s \in Sem : Completed(c, s) => credit'[s] = Clip(credit[s] + Gain(c, s))
    BY <1>t, HistoryStep
  <2>3. (Blocked(c) => Block(c)) /\ \A s \in Sem : Completed(c, s) => Pass(c)
    BY <1>t, <1>2, QuietStep
  <2>4. Accounts /\ AtomicStep
    <3>1. CASE Block(c)
      <4>1. cpu[c].pc = "block" /\ cpu'[c].pc = "save" /\ current[c] \in PCB
        <5>1. cpu[c].pc = "block" /\ cpu'[c].pc = "save"
          BY <1>t, <3>1, HandleFlow DEF Goes
        <5>2. current[c] # NULL
          BY <1>t, <5>1 DEF LocalsHold, Valid, Handlers
        <5>3. current \in [CPU -> PCB \cup {NULL}]
          BY <1>t DEF TypeOK
        <5>. QED  BY <5>1, <5>2, <5>3
      <4>2. Blocked(c) /\ \A s \in Sem : ~Completed(c, s)
        BY <4>1 DEF Blocked, Completed
      <4>. QED  BY <1>f, <2>2, <3>1, <4>1, <4>2, BlockHistory DEF AtomicStep
    <3>2. CASE Pass(c)
      <4>1. ~Blocked(c)
        BY <3>2 DEF Pass, Blocked
      <4>. QED  BY <1>f, <2>2, <3>2, <4>1, PassHistory DEF AtomicStep
    <3>3. CASE ~Block(c) /\ ~Pass(c)
      <4>1. want' = want /\ \A s \in Sem : credit'[s] = credit[s]
        BY <2>2, <2>3, <3>3
      <4>2. CASE Create(c)
        BY <1>f, <4>1, <4>2, CreateHistory DEF AtomicStep
      <4>3. CASE KillOne(c)
        BY <1>f, <4>1, <4>3, KillHistory DEF AtomicStep
      <4>4. CASE ~Works(c)
        <5>1. Still
          BY <1>t, <1>2, <4>4, StillStep
        <5>. QED  BY <1>t, <1>f, <4>1, <5>1, StillHistory DEF AtomicStep
      <4>. QED  BY <3>3, <4>2, <4>3, <4>4 DEF Works
    <3>. QED  BY <3>1, <3>2, <3>3
  <2>. QED  BY <2>1, <2>4 DEF HistoryInv, Accounts
<1>3. CASE UNCHANGED vars \/ \E d \in Dev : Complete(d)
  BY <1>1, <1>3 DEF vars, lists, Complete, kernel
<1>. QED  BY <1>2, <1>3 DEF HNext, Next, Runs, Stays

-----------------------------------------------------------------------------
(* The theorems.  They are about one CPU: on two, another CPU comes between *)
(* the tests of a call and its effect.                                      *)

LEMMA HistoryIsOfSpec == HSpec => Spec
<1>1. HInit => Init
  BY DEF HInit
<1>2. [HNext]_hvars => [Next]_vars
  BY DEF HNext, hvars
<1>. QED  BY <1>1, <1>2, PTL DEF HSpec, Spec

\* One CPU can take no process from another.
LEMMA AloneIsIntact == ASSUME Uniprocessor PROVE HSpec => []Inv
<1>1. Init => intact
  BY DEF Init
<1>2. intact /\ [Next]_vars => intact'
  <2>1. Struck = {}
    BY DEF Uniprocessor, Struck
  <2>2. intact /\ Track => intact'
    BY <2>1 DEF Track
  <2>. QED  BY <2>2 DEF Next, Runs, Stays, vars
<1>3. Spec => [](intact => Inv)
  BY NucleusInvariant
<1>4. HSpec => Spec
  BY HistoryIsOfSpec
<1>. QED  BY <1>1, <1>2, <1>3, <1>4, PTL DEF Spec

LEMMA HistoryStutter ==
  HistoryInv /\ UNCHANGED hvars => HistoryInv' /\ UNCHANGED <<val, Queues, Live>>
BY DEF hvars, vars, lists, HistoryInv, CreditConserved, NoLostWakeup, Separate, Agrees,
       Queues, Live

\* HistoryInv holds with the invariant of the nucleus.
THEOREM HistoryInvariant ==
  ASSUME Uniprocessor PROVE HSpec => []HistoryInv
<1>1. HInit => HistoryInv
  BY InitHistory
<1>2. Inv /\ TypeOK' /\ HistoryInv /\ [HNext]_hvars => HistoryInv'
  BY NextHistory, HistoryStutter
<1>3. Inv => TypeOK
  BY DEF Inv
<1>4. HSpec => []Inv
  BY AloneIsIntact
<1>. QED  BY <1>1, <1>2, <1>3, <1>4, PTL DEF HSpec

\* The value of a semaphore is its initial value and what the completed calls
\* have put in or taken out, at every moment.
THEOREM CallsAreAccounted ==
  ASSUME Uniprocessor PROVE HSpec => []CreditConserved
<1>1. HistoryInv => CreditConserved
  BY DEF HistoryInv
<1>. QED  BY <1>1, HistoryInvariant, PTL

\* Whoever waits in a P or a V waits for the value that the semaphore does not
\* have: no V gets lost between the tests of a P and its insertion.
THEOREM NoWakeupIsLost ==
  ASSUME Uniprocessor PROVE HSpec => []NoLostWakeup
<1>1. HistoryInv => NoLostWakeup
  BY DEF HistoryInv
<1>. QED  BY <1>1, HistoryInvariant, PTL

\* On one CPU a semaphore that starts at 1 encloses a critical section.
THEOREM SectionsExclude ==
  ASSUME Uniprocessor PROVE HSpec => []MutualExclusion
<1>1. TypeOK /\ HistoryInv => MutualExclusion
  <2>1. TypeOK /\ HistoryInv => \A s \in Sem : credit[s] \in {0, 1}
    BY DEF TypeOK, HistoryInv, CreditConserved
  <2>2. \A n \in {0, 1} : n >= 0
    OBVIOUS
  <2>. QED  BY <2>1, <2>2 DEF MutualExclusion
<1>2. Inv => TypeOK
  BY DEF Inv
<1>3. HSpec => []Inv
  BY AloneIsIntact
<1>. QED  BY <1>1, <1>2, <1>3, HistoryInvariant, PTL

\* The mapping of Atomic, with the queues under their name.
LEMMA QueuesAreMapped ==
  Queues = [s \in Sem |-> [i \in 1 .. Len(semq[s]) |-> <<semq[s][i], want[semq[s][i]]>>]]
BY DEF Queues, Calls, CallOf

LEMMA AtomicInit == HInit => Atomic!Init
<1>. SUFFICES ASSUME HInit PROVE Atomic!Init
  OBVIOUS
<1>1. \A s \in Sem : semq[s] = <<>>
  BY DEF HInit, Init, Key
<1>2. Queues = [s \in Sem |-> <<>>]
  BY <1>1, NoCalls DEF Queues
<1>3. val \in [Sem -> {0, 1}] /\ Live \subseteq PCB
  BY DEF HInit, Init, Live
<1>. QED  BY <1>2, <1>3, QueuesAreMapped DEF Atomic!Init

\* The operator of SequencesExt, reached through Atomic.
LEMMA SameRemoveFirst == \A q, e : Atomic!RemoveFirst(q, e) = RemoveFirst(q, e)
BY DEF Atomic!RemoveFirst, RemoveFirst, Atomic!RemoveAt, RemoveAt,
       Atomic!SelectInSeq, SelectInSeq, Atomic!Min, Min

LEMMA AtomicNext == AtomicStep => [Atomic!Next]_(Atomic!vars)
<1>m. /\ Queues = [s \in Sem |->
           [i \in 1 .. Len(semq[s]) |-> <<semq[s][i], want[semq[s][i]]>>]]
      /\ Queues' = [s \in Sem |->
           [i \in 1 .. Len(semq'[s]) |-> <<semq'[s][i], want'[semq'[s][i]]>>]]
  BY DEF Queues, Calls, CallOf
<1>1. UNCHANGED <<val, Queues, Live>> => UNCHANGED Atomic!vars
  BY <1>m DEF Atomic!vars
<1>2. ASSUME NEW p \in Live, NEW s \in Sem, NEW op \in {0, 1}, val[s] = op,
             Queues' = [Queues EXCEPT ![s] = Append(@, <<p, op>>)], UNCHANGED <<val, Live>>
      PROVE  Atomic!Next
  <2>1. Atomic!Blocks(p, s, op)
    BY <1>m, <1>2 DEF Atomic!Blocks
  <2>2. p \in PCB
    BY DEF Live
  <2>. QED  BY <2>1, <2>2 DEF Atomic!Next
<1>3. ASSUME NEW s \in Sem, NEW op \in {0, 1}, val[s] # op, Live' = Live, Queues[s] # <<>>,
             Queues' = [Queues EXCEPT ![s] = Tail(@)], val' = val
      PROVE  Atomic!Next
  <2>1. Atomic!Releases(s, op)
    BY <1>m, <1>3 DEF Atomic!Releases
  <2>. QED  BY <2>1 DEF Atomic!Next
<1>4. ASSUME NEW s \in Sem, NEW op \in {0, 1}, val[s] # op, Live' = Live, Queues[s] = <<>>,
             val' = [val EXCEPT ![s] = op], Queues' = Queues
      PROVE  Atomic!Next
  <2>1. Atomic!Passes(s, op)
    BY <1>m, <1>4 DEF Atomic!Passes
  <2>. QED  BY <2>1 DEF Atomic!Next
<1>5. ASSUME NEW p \in PCB, p \notin Live, Live' = Live \cup {p}, UNCHANGED <<val, Queues>>
      PROVE  Atomic!Next
  <2>1. Atomic!Starts(p)
    BY <1>m, <1>5 DEF Atomic!Starts
  <2>. QED  BY <2>1 DEF Atomic!Next
<1>6. ASSUME NEW p \in Live, Live' = Live \ {p}, val' = val,
             Queues' = [s \in Sem |->
               RemoveFirst(RemoveFirst(Queues[s], <<p, 0>>), <<p, 1>>)]
      PROVE  Atomic!Next
  <2>1. Atomic!Terminates(p)
    BY <1>m, <1>6, SameRemoveFirst DEF Atomic!Terminates
  <2>2. p \in PCB
    BY DEF Live
  <2>. QED  BY <2>1, <2>2 DEF Atomic!Next
<1>. QED  BY <1>1, <1>2, <1>3, <1>4, <1>5, <1>6 DEF AtomicStep

\* PASSEREN and VERHOGEN, with their two reads outside the lock, do what the
\* atomic calls of AtomicSemaphore do, each step one of theirs or none.
THEOREM CallsAreAtomic ==
  ASSUME Uniprocessor PROVE HSpec => AtomicCalls
<1>1. HInit => Atomic!Init
  BY AtomicInit
<1>2. Inv /\ TypeOK' /\ HistoryInv /\ [HNext]_hvars => [Atomic!Next]_(Atomic!vars)
  <2>. SUFFICES ASSUME Inv, TypeOK', HistoryInv, [HNext]_hvars
                PROVE  [Atomic!Next]_(Atomic!vars)
    OBVIOUS
  <2>1. HNext => AtomicStep
    BY NextHistory
  <2>2. UNCHANGED hvars => AtomicStep
    BY HistoryStutter DEF AtomicStep
  <2>. QED  BY <2>1, <2>2, AtomicNext
<1>3. Inv => TypeOK
  BY DEF Inv
<1>4. HSpec => []Inv
  BY AloneIsIntact
<1>. QED  BY <1>1, <1>2, <1>3, <1>4, HistoryInvariant, PTL DEF HSpec, AtomicCalls, Atomic!Spec
=============================================================================
