--------------------------- MODULE HandlerProofs ---------------------------
(* What the handlers leave behind: where they can fault and what keeps the *)
(* workload from making them, what becomes of the lock, the state with     *)
(* which a process is resumed, and who is woken when a device completes.   *)
EXTENDS NucleusProofs

\* A step of c that takes it from one location to another.
Goes(c, L, M) ==
  /\ cpu[c].pc \in L /\ cpu'[c].pc \in M
  /\ \A i \in CPU \ {c} : cpu'[i] = cpu[i]

-----------------------------------------------------------------------------
(* The control flow of a CPU *)

LEMMA ScheduleFlow ==
  ASSUME TypeOK, NEW c \in CPU
  PROVE  /\ Dispatch(c) => Goes(c, {"sched"}, {"load"})
         /\ Load(c) => Goes(c, {"load"}, {"run"})
         /\ Wait(c) => Goes(c, {"sched"}, {"idle"})
         /\ Halt(c) => Goes(c, {"sched"}, {"halted"})
BY MoveFacts DEF Dispatch, Load, Wait, Halt, Goes

LEMMA RequestFlow ==
  ASSUME TypeOK, NEW c \in CPU, NEW l, NEW k, NEW v, NEW x, Request(c, l, k, v, x)
  PROVE  /\ Goes(c, {"run"}, {l}) /\ UNCHANGED <<kernel, devs>>
         /\ cpu'[c].sem = k /\ cpu'[c].at = v /\ cpu'[c].caller = current[c]
BY DEF Request, Local, TypeOK, Goes

\* Each call is issued by a CPU that runs a process, which then is in the
\* handler of a system call that the workload issues.
LEMMA CallFlow ==
  ASSUME TypeOK, LocalsHold, NEW c \in CPU, Call(c)
  PROVE  /\ UNCHANGED <<kernel, devs>>
         /\ \/ CallCreate(c) /\ Goes(c, {"run"}, {"create"})
            \/ Goes(c, {"run"}, {"term"})
            \/ "TERMPID" \in Services /\ Goes(c, {"run"}, {"termpid"})
            \/ {"PASSEREN", "VERHOGEN"} \cap Services # {} /\ Goes(c, {"run"}, {"test1"})
               /\ cpu'[c].sem \in Sem
            \/ Goes(c, {"run"}, {"doio"})
            \/ "CLOCKWAIT" \in Services /\ Goes(c, {"run"}, {"clockwait"})
<1>1. ASSUME NEW l, NEW k, NEW v, NEW x, Request(c, l, k, v, x)
      PROVE  Goes(c, {"run"}, {l}) /\ cpu'[c].sem = k /\ UNCHANGED <<kernel, devs>>
  BY <1>1, RequestFlow
<1>2. CASE ProgramTrap(c)
  <2>1. Valid(c) /\ cpu[c].pc = "run"
    BY <1>2 DEF LocalsHold, ProgramTrap
  <2>2. Enter(c, "term", current[c])
    BY <1>2, <2>1 DEF ProgramTrap, Valid
  <2>. QED  BY <1>2, <2>1, <2>2, MoveFacts DEF ProgramTrap, Goes
<1>3. CASE CallCreate(c)
  BY <1>1, <1>3 DEF CallCreate
<1>4. CASE CallTerm(c) \/ CallTermPid(c)
  BY <1>1, <1>4 DEF CallTerm, CallTermPid
<1>5. CASE CallP(c) \/ CallV(c)
  BY <1>1, <1>5 DEF CallP, CallV
<1>6. CASE CallDoIO(c) \/ CallClockWait(c)
  BY <1>1, <1>6 DEF CallDoIO, CallClockWait
<1>. QED  BY <1>2, <1>3, <1>4, <1>5, <1>6 DEF Call

\* A handler that finds its caller does not fault.
LEMMA HandleFlow ==
  ASSUME TypeOK, LocalsHold, NEW c \in CPU
  PROVE  /\ Create(c) => Goes(c, {"create"}, {"run"})
         /\ CreateFails(c) => Goes(c, {"create"}, {"wild"})
         /\ FirstTest(c) => Goes(c, {"test1"}, {"block", "test2"})
         /\ SecondTest(c) => Goes(c, {"test2"}, {"pass", "wild"})
         /\ Block(c) => Goes(c, {"block"}, {"save"}) /\ lock' = lock
         /\ Pass(c) => Goes(c, {"pass"}, {"run"})
         /\ ClockWait(c) => Goes(c, {"clockwait"}, {"save"}) /\ lock' = lock
         /\ Save(c) => Goes(c, {"save"}, {"clear"})
         /\ Clear(c) => Goes(c, {"clear"}, {"sched"})
         /\ DoIO(c) => Goes(c, {"doio"}, {"cmd"}) /\ lock' = lock
         /\ Command(c) => Goes(c, {"cmd"}, {"sched"})
<1>. USE MoveFacts DEF Goes
<1>1. Valid(c)
  BY DEF LocalsHold
<1>2. cpu[c].pc \in {"block", "clockwait", "doio", "save"} =>
        cpu[c].caller # NULL /\ current[c] # NULL
  BY <1>1 DEF Valid, Handlers, Window
<1>3. Create(c) => Goes(c, {"create"}, {"run"})
  BY DEF Create
<1>4. CreateFails(c) => Goes(c, {"create"}, {"wild"})
  BY DEF CreateFails, Fault
<1>5. FirstTest(c) => Goes(c, {"test1"}, {"block", "test2"})
  BY DEF FirstTest
<1>6. SecondTest(c) => Goes(c, {"test2"}, {"pass", "wild"})
  BY DEF SecondTest
<1>7. Block(c) => Goes(c, {"block"}, {"save"}) /\ lock' = lock
  BY <1>2 DEF Block
<1>8. Pass(c) => Goes(c, {"pass"}, {"run"})
  BY DEF Pass
<1>9. ClockWait(c) => Goes(c, {"clockwait"}, {"save"}) /\ lock' = lock
  BY <1>2 DEF ClockWait
<1>10. Save(c) => Goes(c, {"save"}, {"clear"})
  BY <1>2 DEF Save
<1>11. Clear(c) => Goes(c, {"clear"}, {"sched"})
  BY DEF Clear
<1>12. DoIO(c) => Goes(c, {"doio"}, {"cmd"}) /\ lock' = lock
  BY <1>2 DEF DoIO
<1>13. Command(c) => Goes(c, {"cmd"}, {"sched"})
  BY DEF Command
<1>. QED  BY <1>3, <1>4, <1>5, <1>6, <1>7, <1>8, <1>9, <1>10, <1>11, <1>12, <1>13

LEMMA KillFlow ==
  ASSUME TypeOK, NEW c \in CPU
  PROVE  /\ Term(c) => Goes(c, {"term"}, {"sched", "kill"})
         /\ TermPid(c) => Goes(c, {"termpid"}, {"run", "killpid"})
         /\ SearchFaults(c) => Goes(c, {"termpid", "killpid"}, {"wild"})
         /\ KillOne(c) => /\ cpu[c].pc \in Killing /\ lock' = lock
                          /\ \A i \in CPU : /\ cpu'[i].pc = cpu[i].pc
                                            /\ cpu'[i].sem = cpu[i].sem
                                            /\ cpu'[i].at = cpu[i].at
                                            /\ cpu'[i].caller = cpu[i].caller
         /\ EndKill(c) => Goes(c, Killing, {"sched", "run"})
<1>t. cpu \in [CPU -> Locals]
  BY DEF TypeOK
<1>1. ASSUME NEW r, NEW l \in Killing, StartKill(c, r, l)
      PROVE  cpu'[c].pc = l /\ \A i \in CPU \ {c} : cpu'[i] = cpu[i]
  BY <1>t, <1>1 DEF StartKill, Locals
<1>2. Term(c) => Goes(c, {"term"}, {"sched", "kill"})
  BY <1>1, MoveFacts DEF Term, Killing, Goes
<1>3. TermPid(c) => Goes(c, {"termpid"}, {"run", "killpid"})
  BY <1>1, MoveFacts DEF TermPid, Killing, Goes
<1>4. SearchFaults(c) => Goes(c, {"termpid", "killpid"}, {"wild"})
  BY MoveFacts DEF SearchFaults, Fault, Goes
<1>5. ASSUME KillOne(c)
      PROVE  \A i \in CPU : /\ cpu'[i].pc = cpu[i].pc /\ cpu'[i].sem = cpu[i].sem
                            /\ cpu'[i].at = cpu[i].at /\ cpu'[i].caller = cpu[i].caller
  <2>1. PICK p \in PCB : RemovePcb(c, p)
    BY <1>5 DEF KillOne, Subtree
  <2>. QED  BY <1>t, <2>1 DEF RemovePcb, Forgotten, Locals
<1>6. EndKill(c) => Goes(c, Killing, {"sched", "run"})
  BY MoveFacts DEF EndKill, Goes
<1>. QED  BY <1>2, <1>3, <1>4, <1>5, <1>6 DEF KillOne

LEMMA InterruptFlow ==
  ASSUME TypeOK, LocalsHold, NEW c \in CPU
  PROVE  /\ TakeInterrupt(c) => Goes(c, {"run", "idle"}, {"trapped"})
         /\ ReadBitmap(c) => Goes(c, {"trapped"}, {"irq"})
         /\ ServeInterrupt(c) => Goes(c, {"irq"}, {"sched", "run"})
         /\ Preempt(c) => Goes(c, {"run"}, {"sched"})
         /\ Tick(c) => Goes(c, {"run", "idle"}, {"sched", "run"})
<1>1. TakeInterrupt(c) => Goes(c, {"run", "idle"}, {"trapped"})
  BY MoveFacts DEF TakeInterrupt, Interruptible, Goes
<1>2. ReadBitmap(c) => Goes(c, {"trapped"}, {"irq"})
  BY DEF ReadBitmap, TypeOK, Locals, Goes
<1>3. Preempt(c) => Goes(c, {"run"}, {"sched"})
  BY MoveFacts DEF Preempt, Goes
<1>4. ASSUME AfterInterrupt(c), cpu[c].pc \in {"irq", "run", "idle"}
      PROVE  cpu'[c].pc \in {"sched", "run"} /\ \A i \in CPU \ {c} : cpu'[i] = cpu[i]
  <2>1. Valid(c)
    BY DEF LocalsHold
  <2>2. current[c] = cpu[c].caller
    BY <1>4, <2>1 DEF Valid, Handlers
  <2>. QED  BY <1>4, <2>2, MoveFacts DEF AfterInterrupt
<1>5. ServeInterrupt(c) => Goes(c, {"irq"}, {"sched", "run"})
  BY <1>4 DEF ServeInterrupt, Goes
<1>6. Tick(c) => Goes(c, {"run", "idle"}, {"sched", "run"})
  BY <1>4 DEF Tick, Interruptible, Goes
<1>. QED  BY <1>1, <1>2, <1>3, <1>5, <1>6
-----------------------------------------------------------------------------
(* The lock *)

\* Who has the lock between two steps is in a killTree or has faulted.
HeldByKiller == lock # NULL => cpu[lock].pc \in Killing \cup {"wild"}

\* A step of c that does not touch the lock, or gives it back.
LEMMA OthersKeepLock ==
  ASSUME TypeOK, HeldByKiller, NEW c \in CPU, lock' \in {lock, NULL},
         \A i \in CPU \ {c} : cpu'[i] = cpu[i], cpu[c].pc \notin Killing \cup {"wild"}
  PROVE  HeldByKiller'
BY DEF HeldByKiller, TypeOK

LEMMA ScheduleKeepsLock ==
  ASSUME TypeOK, HeldByKiller, NEW c \in CPU, Schedule(c) PROVE HeldByKiller'
<1>1. cpu[c].pc \in {"sched", "load"} /\ \A i \in CPU \ {c} : cpu'[i] = cpu[i]
  BY ScheduleFlow DEF Schedule, Goes
<1>2. lock' = lock
  BY DEF Schedule, Dispatch, Load, Wait, Halt, kernel
<1>. QED  BY <1>1, <1>2, OthersKeepLock DEF Killing

LEMMA CallKeepsLock ==
  ASSUME TypeOK, LocalsHold, HeldByKiller, NEW c \in CPU, Call(c) PROVE HeldByKiller'
<1>1. cpu[c].pc = "run" /\ \A i \in CPU \ {c} : cpu'[i] = cpu[i]
  BY CallFlow DEF Goes
<1>2. lock' = lock
  BY CallFlow DEF kernel
<1>. QED  BY <1>1, <1>2, OthersKeepLock DEF Killing

LEMMA InterruptKeepsLock ==
  ASSUME TypeOK, LocalsHold, HeldByKiller, NEW c \in CPU, Interrupt(c)
  PROVE  HeldByKiller'
<1>1. /\ cpu[c].pc \in {"run", "idle", "trapped", "irq"}
      /\ \A i \in CPU \ {c} : cpu'[i] = cpu[i]
  BY InterruptFlow DEF Interrupt, Goes
<1>2. lock' = lock
  BY DEF Interrupt, TakeInterrupt, ReadBitmap, ServeInterrupt, Preempt, Tick, kernel
<1>. QED  BY <1>1, <1>2, OthersKeepLock DEF Killing

LEMMA HandleKeepsLock ==
  ASSUME TypeOK, LocalsHold, HeldByKiller, NEW c \in CPU, Handle(c)
  PROVE  HeldByKiller'
<1>t. cpu \in [CPU -> Locals] /\ c # NULL
  BY CpuAssumption DEF TypeOK
<1>1. ASSUME NEW r, NEW l \in Killing, StartKill(c, r, l) PROVE HeldByKiller'
  BY <1>t, <1>1 DEF StartKill, HeldByKiller, Locals
<1>2. CASE Term(c) \/ TermPid(c)
  <2>1. CASE UNCHANGED lock
    <3>1. cpu[c].pc \in {"term", "termpid"} /\ \A i \in CPU \ {c} : cpu'[i] = cpu[i]
      BY <1>2, KillFlow DEF Goes
    <3>. QED  BY <2>1, <3>1, OthersKeepLock DEF Killing
  <2>. QED  BY <1>1, <1>2, <2>1 DEF Term, TermPid, Killing
<1>3. CASE CreateFails(c) \/ SearchFaults(c)
  <2>1. lock' = c /\ cpu'[c].pc = "wild"
    BY <1>3, MoveFacts DEF CreateFails, SearchFaults, Fault
  <2>. QED  BY <2>1 DEF HeldByKiller
<1>4. CASE KillOne(c)
  BY <1>4, KillFlow DEF HeldByKiller, TypeOK
<1>5. CASE EndKill(c)
  BY <1>5 DEF EndKill, HeldByKiller
<1>6. CASE \/ Create(c) \/ FirstTest(c) \/ SecondTest(c) \/ Block(c) \/ Pass(c)
           \/ ClockWait(c) \/ Save(c) \/ Clear(c) \/ DoIO(c) \/ Command(c)
  <2>1. /\ cpu[c].pc \in Handlers \cup {"save", "clear", "cmd"}
        /\ \A i \in CPU \ {c} : cpu'[i] = cpu[i]
    BY <1>6, HandleFlow DEF Goes, Handlers
  <2>2. lock' = lock
    BY <1>6, HandleFlow DEF Create, FirstTest, SecondTest, Pass, Save, Clear, Command, kernel
  <2>. QED  BY <2>1, <2>2, OthersKeepLock DEF Killing, Handlers
<1>. QED  BY <1>2, <1>3, <1>4, <1>5, <1>6 DEF Handle

LEMMA LockInvariant == Spec => [](intact => HeldByKiller)
<1>1. Init => HeldByKiller
  BY DEF Init, HeldByKiller
<1>2. Inv /\ HeldByKiller /\ [Next]_vars => HeldByKiller'
  <2>. SUFFICES ASSUME Inv, HeldByKiller, [Next]_vars PROVE HeldByKiller'
    OBVIOUS
  <2>. TypeOK /\ LocalsHold
    BY DEF Inv
  <2>1. CASE UNCHANGED vars
    BY <2>1 DEF vars, HeldByKiller
  <2>2. ASSUME NEW d \in Dev, Complete(d) PROVE HeldByKiller'
    BY <2>2 DEF Complete, kernel, HeldByKiller
  <2>. QED  BY <2>1, <2>2, ScheduleKeepsLock, CallKeepsLock, HandleKeepsLock,
               InterruptKeepsLock DEF Next, Runs, Stays
<1>3. [Next]_vars /\ intact' => intact
  BY StaysIntact
<1>4. Spec => [](intact => Inv)
  BY NucleusInvariant
<1>. QED  BY <1>1, <1>2, <1>3, <1>4, PTL DEF Spec

-----------------------------------------------------------------------------
(* Faults *)

\* The three ways to fault that the code leaves open: no free PCB, a search
\* by pid that meets an idle CPU, and a semaphore whose value has changed
\* between the two tests.
FaultsAt(c) ==
  \/ cpu[c].pc = "create" /\ pcbFree = {}
  \/ cpu[c].pc \in {"termpid", "killpid"}
  \/ cpu[c].pc = "test2" /\ val[cpu[c].sem] = cpu[c].at

\* No other step faults, whatever the other CPUs have done meanwhile.
LEMMA StepFaults ==
  ASSUME TypeOK, LocalsHold, NEW c \in CPU,
         Schedule(c) \/ Call(c) \/ Handle(c) \/ Interrupt(c)
  PROVE  /\ \A i \in CPU \ {c} : cpu'[i].pc = cpu[i].pc
         /\ cpu'[c].pc = "wild" => FaultsAt(c)
<1>. USE DEF Goes
<1>1. CASE Schedule(c)
  BY <1>1, ScheduleFlow DEF Schedule
<1>2. CASE Call(c)
  BY <1>2, CallFlow
<1>3. CASE Interrupt(c)
  BY <1>3, InterruptFlow DEF Interrupt
<1>4. CASE \/ Create(c) \/ FirstTest(c) \/ Block(c) \/ Pass(c) \/ ClockWait(c)
           \/ Save(c) \/ Clear(c) \/ DoIO(c) \/ Command(c)
  BY <1>4, HandleFlow
<1>5. CASE Term(c) \/ TermPid(c) \/ KillOne(c) \/ EndKill(c)
  BY <1>5, KillFlow DEF Killing
<1>6. CASE CreateFails(c)
  BY <1>6, HandleFlow DEF CreateFails, FaultsAt
<1>7. CASE SecondTest(c)
  <2>1. val[cpu[c].sem] # cpu[c].at => cpu'[c].pc = "pass"
    BY <1>7, MoveFacts DEF SecondTest
  <2>. QED  BY <1>7, <2>1, HandleFlow DEF SecondTest, FaultsAt
<1>8. CASE SearchFaults(c)
  BY <1>8, KillFlow DEF FaultsAt
<1>. QED  BY <1>1, <1>2, <1>3, <1>4, <1>5, <1>6, <1>7, <1>8 DEF Handle
-----------------------------------------------------------------------------
(* What the services and the size of the machine rule out *)

Uniprocessor == \A c, i \in CPU : c = i
Binary       == {"PASSEREN", "VERHOGEN"}
Blocking     == Binary \cup {"CLOCKWAIT"}

\* A CPU is in the handler of a call only if the workload issues that call.
Issued(c) ==
  /\ cpu[c].pc \in {"termpid", "killpid"} => "TERMPID" \in Services
  /\ cpu[c].pc \in {"test1", "test2", "block", "pass"} => Binary \cap Services # {}
  /\ cpu[c].pc = "clockwait" => "CLOCKWAIT" \in Services
  /\ cpu[c].pc = "save" => Blocking \cap Services # {}

LEMMA StepIssued ==
  ASSUME TypeOK, LocalsHold, \A c \in CPU : Issued(c), NEW c \in CPU,
         Schedule(c) \/ Call(c) \/ Handle(c) \/ Interrupt(c)
  PROVE  \A i \in CPU : Issued(i)'
<1>. USE DEF Goes
<1>. SUFFICES Issued(c)'
  BY StepFaults DEF Issued
<1>i. Issued(c)
  OBVIOUS
<1>1. CASE Schedule(c)
  <2>. cpu'[c].pc \in {"load", "run", "idle", "halted"}
    BY <1>1, ScheduleFlow DEF Schedule
  <2>. QED  BY DEF Issued
<1>2. CASE Call(c)
  BY <1>2, CallFlow DEF Issued, Binary
<1>3. CASE Interrupt(c)
  <2>. cpu'[c].pc \in {"sched", "run", "trapped", "irq"}
    BY <1>3, InterruptFlow DEF Interrupt
  <2>. QED  BY DEF Issued
<1>4. CASE \/ Create(c) \/ CreateFails(c) \/ Pass(c) \/ Save(c) \/ Clear(c) \/ DoIO(c)
           \/ Command(c) \/ Term(c) \/ SearchFaults(c) \/ EndKill(c)
  <2>. cpu'[c].pc \in {"run", "wild", "clear", "sched", "cmd", "kill"}
    BY <1>4, HandleFlow, KillFlow
  <2>. QED  BY DEF Issued
<1>5. CASE FirstTest(c) \/ SecondTest(c)
  <2>. /\ cpu[c].pc \in {"test1", "test2"}
       /\ cpu'[c].pc \in {"block", "test2", "pass", "wild"}
    BY <1>5, HandleFlow
  <2>. QED  BY <1>i DEF Issued
<1>6. CASE Block(c) \/ ClockWait(c)
  <2>. cpu[c].pc \in {"block", "clockwait"} /\ cpu'[c].pc = "save"
    BY <1>6, HandleFlow
  <2>. QED  BY <1>i DEF Issued, Blocking, Binary
<1>7. CASE TermPid(c)
  <2>. cpu[c].pc = "termpid" /\ cpu'[c].pc \in {"run", "killpid"}
    BY <1>7, KillFlow
  <2>. QED  BY <1>i DEF Issued
<1>8. CASE KillOne(c)
  BY <1>i, <1>8, KillFlow DEF Issued
<1>. QED  BY <1>1, <1>2, <1>3, <1>4, <1>5, <1>6, <1>7, <1>8 DEF Handle

\* A semaphore address is never that of a device.
Separate(c) ==
  /\ cpu[c].pc \in {"test1", "test2", "block", "pass"} => cpu[c].sem \in Sem
  /\ cpu[c].pc \in {"doio", "cmd"} => cpu[c].sem \in Dev
  /\ cpu[c].pc = "irq" => cpu[c].sem \in Dev \cup {NoDev}

LEMMA StepSeparate ==
  ASSUME TypeOK, LocalsHold, \A c \in CPU : Separate(c), NEW c \in CPU,
         Schedule(c) \/ Call(c) \/ Handle(c) \/ Interrupt(c)
  PROVE  \A i \in CPU : Separate(i)'
<1>. USE DEF Goes
<1>t. cpu \in [CPU -> Locals] /\ Separate(c)
  BY DEF TypeOK
<1>1. CASE KillOne(c)
  BY <1>1, KillFlow DEF Separate
<1>2. CASE ~KillOne(c)
  <2>1. \A i \in CPU \ {c} : cpu'[i] = cpu[i]
    BY <1>2, ScheduleFlow, CallFlow, HandleFlow, KillFlow, InterruptFlow
       DEF Schedule, Handle, Interrupt
  <2>. SUFFICES Separate(c)'
    BY <2>1 DEF Separate
  <2>2. CASE Schedule(c)
    <3>. cpu'[c].pc \in {"load", "run", "idle", "halted"}
      BY <2>2, ScheduleFlow DEF Schedule
    <3>. QED  BY DEF Separate
  <2>3. CASE CallDoIO(c)
    <3>1. PICK d \in Dev : Request(c, "doio", d, 0, NULL)
      BY <2>3 DEF CallDoIO
    <3>. QED  BY <3>1, RequestFlow DEF Separate
  <2>4. CASE Call(c) /\ ~CallDoIO(c)
    <3>1. /\ cpu'[c].pc \in {"create", "term", "termpid", "test1", "clockwait"}
          /\ cpu'[c].pc = "test1" => cpu'[c].sem \in Sem
      <4>1. ASSUME NEW l \in {"create", "term", "termpid", "clockwait"}, NEW k, NEW v, NEW x,
                   Request(c, l, k, v, x)
            PROVE  cpu'[c].pc \in {"create", "term", "termpid", "clockwait"}
        BY <4>1, RequestFlow
      <4>2. ASSUME NEW s \in Sem, NEW v, NEW x, Request(c, "test1", s, v, x)
            PROVE  cpu'[c].pc = "test1" /\ cpu'[c].sem \in Sem
        BY <4>2, RequestFlow
      <4>3. CASE ProgramTrap(c)
        <5>1. Valid(c) /\ cpu[c].pc = "run"
          BY <4>3 DEF ProgramTrap, LocalsHold
        <5>2. Enter(c, "term", current[c])
          BY <4>3, <5>1 DEF ProgramTrap, Valid
        <5>3. cpu'[c].pc = "term"
          BY <5>2, MoveFacts
        <5>. QED  BY <5>3
      <4>4. CASE CallCreate(c) \/ CallTerm(c) \/ CallTermPid(c) \/ CallClockWait(c)
        BY <4>1, <4>4 DEF CallCreate, CallTerm, CallTermPid, CallClockWait
      <4>5. CASE CallP(c) \/ CallV(c)
        BY <4>2, <4>5 DEF CallP, CallV
      <4>. QED  BY <2>4, <4>3, <4>4, <4>5 DEF Call
    <3>. QED  BY <3>1 DEF Separate
  <2>5. CASE FirstTest(c) \/ SecondTest(c)
    <3>. cpu'[c].sem = cpu[c].sem /\ cpu[c].pc \in {"test1", "test2"}
         /\ cpu'[c].pc \in {"block", "test2", "pass", "wild"}
      BY <2>5, MoveFacts, HandleFlow DEF FirstTest, SecondTest
    <3>. QED  BY <1>t DEF Separate
  <2>6. CASE DoIO(c)
    <3>1. cpu[c].pc = "doio" /\ cpu'[c].pc = "cmd"
      BY <2>6, HandleFlow
    <3>2. cpu'[c].sem = cpu[c].sem
      BY <2>6, MoveFacts DEF DoIO, Fault
    <3>. QED  BY <1>t, <3>1, <3>2 DEF Separate
  <2>7. CASE ReadBitmap(c)
    <3>1. PICK d \in Dev \cup {NoDev} : cpu' = [cpu EXCEPT ![c].pc = "irq", ![c].sem = d]
      BY <2>7 DEF ReadBitmap
    <3>2. cpu'[c].pc = "irq" /\ cpu'[c].sem = d
      BY <1>t, <3>1 DEF Locals
    <3>. QED  BY <3>2 DEF Separate
  <2>8. CASE TakeInterrupt(c) \/ ServeInterrupt(c) \/ Preempt(c) \/ Tick(c)
    <3>. cpu'[c].pc \in {"sched", "run", "trapped"}
      BY <2>8, InterruptFlow
    <3>. QED  BY DEF Separate
  <2>9. CASE \/ Create(c) \/ CreateFails(c) \/ Block(c) \/ Pass(c) \/ ClockWait(c)
             \/ Save(c) \/ Clear(c) \/ Command(c) \/ Term(c) \/ TermPid(c)
             \/ SearchFaults(c) \/ EndKill(c)
    <3>. cpu'[c].pc \in {"run", "wild", "save", "clear", "sched", "kill", "killpid"}
      BY <2>9, HandleFlow, KillFlow
    <3>. QED  BY DEF Separate
  <2>. QED  BY <1>2, <2>2, <2>3, <2>4, <2>5, <2>6, <2>7, <2>8, <2>9 DEF Handle, Interrupt
<1>. QED  BY <1>1, <1>2
-----------------------------------------------------------------------------
(* The pool of PCBs *)

\* The CPUs that have decided to create a process and have not created it.
Creators == {i \in CPU : cpu[i].pc = "create"}

\* Every one of them finds a free PCB.
Room == /\ IsFiniteSet(Creators)
        /\ process_count + Cardinality(Creators) <= Cardinality(PCB)

LEMMA FewerCreators ==
  ASSUME TypeOK, Room, Creators' \subseteq Creators, process_count' <= process_count,
         process_count' \in Int
  PROVE  Room'
<1>1. /\ IsFiniteSet(Creators') /\ Cardinality(Creators') <= Cardinality(Creators)
      /\ Cardinality(Creators') \in Nat /\ Cardinality(Creators) \in Nat
  BY FS_Subset, FS_CardinalityType DEF Room
<1>2. Cardinality(PCB) \in Nat
  BY PcbAssumption, FS_CardinalityType
<1>. QED  BY <1>1, <1>2 DEF Room, TypeOK

\* A process is created only while there is room for it.
LEMMA CallKeepsRoom ==
  ASSUME "overcommit" \notin Liberties, TypeOK, LocalsHold, Room,
         NEW c \in CPU, Call(c)
  PROVE  Room'
<1>t. process_count \in Int /\ process_count' = process_count
  BY CallFlow DEF TypeOK, kernel, lists
<1>1. CASE CallCreate(c)
  <2>1. process_count + Cardinality(Creators) < Cardinality(PCB)
    BY <1>1 DEF CallCreate, Creators
  <2>2. Goes(c, {"run"}, {"create"})
    BY <1>1, RequestFlow DEF CallCreate
  <2>3. c \notin Creators /\ Creators' = Creators \cup {c}
    BY <2>2 DEF Goes, Creators
  <2>4. IsFiniteSet(Creators') /\ Cardinality(Creators') = Cardinality(Creators) + 1
    BY <2>3, FS_AddElement DEF Room
  <2>5. Cardinality(Creators) \in Nat /\ Cardinality(PCB) \in Nat
    BY PcbAssumption, FS_CardinalityType DEF Room
  <2>. QED  BY <1>t, <2>1, <2>4, <2>5 DEF Room
<1>2. CASE ~CallCreate(c)
  <2>1. Creators' \subseteq Creators
    BY <1>2, CallFlow DEF Goes, Creators
  <2>. QED  BY <1>t, <2>1, FewerCreators
<1>. QED  BY <1>1, <1>2

LEMMA HandleKeepsRoom ==
  ASSUME TypeOK, LocalsHold, Room, NEW c \in CPU, Handle(c) PROVE Room'
<1>t. process_count \in Int
  BY DEF TypeOK
<1>1. CASE Create(c)
  <2>1. process_count' = process_count + 1 /\ Goes(c, {"create"}, {"run"})
    BY <1>1, HandleFlow DEF Create
  <2>2. c \in Creators /\ Creators' = Creators \ {c}
    BY <2>1 DEF Goes, Creators
  <2>3. IsFiniteSet(Creators') /\ Cardinality(Creators') = Cardinality(Creators) - 1
    BY <2>2, FS_RemoveElement DEF Room
  <2>4. Cardinality(Creators) \in Nat /\ Cardinality(PCB) \in Nat
    BY PcbAssumption, FS_CardinalityType DEF Room
  <2>. QED  BY <1>t, <2>1, <2>3, <2>4 DEF Room
<1>2. CASE KillOne(c)
  <2>1. Creators' = Creators
    BY <1>2, KillFlow DEF Creators
  <2>2. process_count' = process_count - 1
    BY <1>2 DEF KillOne, RemovePcb
  <2>. QED  BY <1>t, <2>1, <2>2, FewerCreators
<1>3. CASE \/ CreateFails(c) \/ FirstTest(c) \/ SecondTest(c) \/ Block(c) \/ Pass(c)
           \/ ClockWait(c) \/ Save(c) \/ Clear(c) \/ DoIO(c) \/ Command(c)
           \/ Term(c) \/ TermPid(c) \/ SearchFaults(c) \/ EndKill(c)
  <2>1. cpu'[c].pc # "create" /\ \A i \in CPU \ {c} : cpu'[i] = cpu[i]
    BY <1>3, HandleFlow, KillFlow DEF Goes
  <2>2. process_count' = process_count
    BY <1>3 DEF CreateFails, FirstTest, SecondTest, Block, Pass, ClockWait, Save, Clear,
       DoIO, Command, Term, TermPid, SearchFaults, EndKill, kernel, lists
  <2>3. Creators' \subseteq Creators
    BY <2>1 DEF Creators
  <2>. QED  BY <1>t, <2>2, <2>3, FewerCreators
<1>. QED  BY <1>1, <1>2, <1>3 DEF Handle

LEMMA StepKeepsRoom ==
  ASSUME "overcommit" \notin Liberties, TypeOK, LocalsHold, Room,
         NEW c \in CPU, Schedule(c) \/ Call(c) \/ Handle(c) \/ Interrupt(c)
  PROVE  Room'
<1>1. CASE Schedule(c) \/ Interrupt(c)
  <2>1. cpu'[c].pc # "create" /\ \A i \in CPU \ {c} : cpu'[i] = cpu[i]
    BY <1>1, ScheduleFlow, InterruptFlow DEF Schedule, Interrupt, Goes
  <2>2. process_count' = process_count
    BY <1>1 DEF Schedule, Dispatch, Load, Wait, Halt, Interrupt, TakeInterrupt, ReadBitmap,
       ServeInterrupt, Preempt, Tick, kernel, lists
  <2>3. Creators' \subseteq Creators
    BY <2>1 DEF Creators
  <2>. QED  BY <2>2, <2>3, FewerCreators DEF TypeOK
<1>. QED  BY <1>1, CallKeepsRoom, HandleKeepsRoom

\* A CPU at the allocation finds a free PCB.
LEMMA RoomIsEnough ==
  ASSUME TypeOK, CountIsLive, Room, NEW c \in CPU, cpu[c].pc = "create"
  PROVE  pcbFree # {}
<1>1. c \in Creators /\ IsFiniteSet(Creators)
  BY DEF Creators, Room
<1>2. Cardinality(Creators) \in Nat /\ Cardinality(Creators) # 0
  BY <1>1, FS_CardinalityType, FS_EmptySet
<1>3. Cardinality(PCB) \in Nat
  BY PcbAssumption, FS_CardinalityType
<1>4. pcbFree = {} => process_count = Cardinality(PCB)
  BY DEF CountIsLive, Live
<1>. QED  BY <1>2, <1>3, <1>4 DEF Room
-----------------------------------------------------------------------------
(* No handler faults *)

\* The value on which the first test has decided is the one that the second
\* test will find.
Decided(c) == cpu[c].pc = "test2" => val[cpu[c].sem] # cpu[c].at

\* On one CPU nobody comes between the two tests.
LEMMA StepDecided ==
  ASSUME Uniprocessor, TypeOK, LocalsHold, NEW c \in CPU,
         Schedule(c) \/ Call(c) \/ Handle(c) \/ Interrupt(c)
  PROVE  \A i \in CPU : Decided(i)'
<1>. SUFFICES Decided(c)'
  BY DEF Uniprocessor
<1>1. CASE FirstTest(c)
  <2>1. cpu[c] \in Locals
    BY DEF TypeOK
  <2>2. /\ cpu'[c].sem = cpu[c].sem /\ cpu'[c].at = cpu[c].at /\ val' = val
        /\ val[cpu[c].sem] = cpu[c].at => cpu'[c].pc = "block"
    BY <1>1, <2>1 DEF FirstTest, Move, TypeOK, Locals, kernel
  <2>. QED  BY <2>2 DEF Decided
<1>2. CASE ~FirstTest(c)
  <2>1. CASE Schedule(c) \/ Call(c) \/ Interrupt(c)
    BY <2>1, ScheduleFlow, CallFlow, InterruptFlow DEF Schedule, Interrupt, Goes, Decided
  <2>2. CASE Handle(c)
    BY <1>2, <2>2, HandleFlow, KillFlow DEF Handle, Goes, Killing, Decided
  <2>. QED  BY <2>1, <2>2
<1>. QED  BY <1>1, <1>2

\* A workload that does not ask for trouble: it keeps to MAXPROC processes,
\* does not search by pid, and uses its semaphores from one CPU only.
Careful ==
  /\ "overcommit" \notin Liberties /\ "TERMPID" \notin Services
  /\ Uniprocessor \/ Binary \cap Services = {}

FaultInv ==
  /\ NoneWild /\ Room /\ \A c \in CPU : Issued(c)
  /\ Uniprocessor => \A c \in CPU : Decided(c)

LEMMA InitFault == Init => FaultInv
<1>. SUFFICES ASSUME Init PROVE FaultInv
  OBVIOUS
<1>1. \A c \in CPU : cpu[c].pc = "sched"
  BY DEF Init, Forget, Local
<1>2. Creators = {} /\ IsFiniteSet({}) /\ Cardinality({}) = 0
  BY <1>1, FS_EmptySet DEF Creators
<1>3. Cardinality(PCB) \in Nat /\ Cardinality(PCB) # 0
  BY PcbAssumption, FS_CardinalityType, FS_EmptySet
<1>4. Room
  BY <1>2, <1>3 DEF Init, Room
<1>. QED  BY <1>1, <1>4 DEF FaultInv, NoneWild, Issued, Decided

LEMMA NextFault ==
  ASSUME Careful, Inv, FaultInv, [Next]_vars PROVE FaultInv'
<1>. TypeOK /\ LocalsHold /\ CountIsLive
  BY DEF Inv
<1>1. CASE UNCHANGED <<cpu, process_count, val>>
  BY <1>1 DEF FaultInv, NoneWild, Room, Creators, Issued, Decided
<1>2. ASSUME NEW c \in CPU, Schedule(c) \/ Call(c) \/ Handle(c) \/ Interrupt(c)
      PROVE  FaultInv'
  <2>1. Room' /\ \A i \in CPU : Issued(i)'
    BY <1>2, StepKeepsRoom, StepIssued DEF FaultInv, Careful
  <2>2. Uniprocessor => \A i \in CPU : Decided(i)'
    BY <1>2, StepDecided
  <2>3. ~FaultsAt(c)
    <3>1. cpu[c].pc = "create" => pcbFree # {}
      BY RoomIsEnough DEF FaultInv
    <3>2. cpu[c].pc \notin {"termpid", "killpid"}
      BY DEF FaultInv, Issued, Careful
    <3>3. cpu[c].pc = "test2" => val[cpu[c].sem] # cpu[c].at
      BY DEF FaultInv, Issued, Decided, Careful
    <3>. QED  BY <3>1, <3>2, <3>3 DEF FaultsAt
  <2>4. NoneWild'
    BY <1>2, <2>3, StepFaults DEF FaultInv, NoneWild
  <2>. QED  BY <2>1, <2>2, <2>4 DEF FaultInv
<1>3. CASE UNCHANGED vars \/ \E d \in Dev : Complete(d)
  BY <1>1, <1>3 DEF vars, lists, Complete, kernel
<1>. QED  BY <1>2, <1>3 DEF Next, Runs, Stays

LEMMA FaultInvariant == ASSUME Careful PROVE Spec => [](intact => FaultInv)
<1>1. Init => FaultInv
  BY InitFault
<1>2. Inv /\ FaultInv /\ [Next]_vars => FaultInv'
  BY NextFault
<1>3. [Next]_vars /\ intact' => intact
  BY StaysIntact
<1>4. Spec => [](intact => Inv)
  BY NucleusInvariant
<1>. QED  BY <1>1, <1>2, <1>3, <1>4, PTL DEF Spec

-----------------------------------------------------------------------------
(* The state with which a process is resumed *)

\* Its state has been saved, or the CPU that has put it into the queue has
\* still to do so.
Saving(c, p) == cpu[c].pc = "save" /\ cpu[c].caller = p
Resumable(p) == saved[p] \/ \E c \in CPU : Saving(c, p)
FreshInv == StateIsSaved /\ \A p \in PCB : Queued(p) => Resumable(p)

\* A step of c that lets no process go without its state.
LEMMA KeepsFresh ==
  ASSUME TypeOK, LocalsHold, FreshInv, NEW c \in CPU,
         \A i \in CPU \ {c} : cpu'[i] = cpu[i],
         \A p \in PCB : saved[p] => saved'[p],
         cpu[c].pc = "save" => saved'[cpu[c].caller],
         \A p \in PCB : Queued(p)' => Queued(p) \/ saved'[p] \/ Saving(c, p)',
         cpu'[c].pc = "load" => saved'[cpu'[c].caller]
  PROVE  FreshInv'
<1>1. ASSUME NEW i \in CPU, cpu[i].pc = "load" PROVE cpu[i].caller \in PCB
  <2>1. Valid(i) /\ cpu[i] \in Locals
    BY DEF LocalsHold, TypeOK
  <2>. QED  BY <1>1, <2>1 DEF Valid, Locals
<1>2. StateIsSaved'
  BY <1>1 DEF FreshInv, StateIsSaved
<1>3. ASSUME NEW p \in PCB, Resumable(p) PROVE Resumable(p)'
  BY <1>3 DEF Resumable, Saving
<1>4. ASSUME NEW p \in PCB, Queued(p)' PROVE Resumable(p)'
  BY <1>3, <1>4 DEF FreshInv, Resumable
<1>. QED  BY <1>2, <1>4 DEF FreshInv

\* The state of a process may be used up once it is in no queue.
LEMMA LoadKeepsFresh ==
  ASSUME Inv, FreshInv, NEW c \in CPU, Load(c) PROVE FreshInv'
<1>. DEFINE p == cpu[c].caller
<1>1. TypeOK /\ Valid(c) /\ RunByOne /\ cpu[c].pc = "load" /\ UNCHANGED <<ready, semq>>
  BY DEF Inv, LocalsHold, Load, lists
<1>2. /\ cpu'[c].pc = "run" /\ \A i \in CPU \ {c} : cpu'[i] = cpu[i]
      /\ \A q \in PCB \ {p} : saved'[q] = saved[q]
  BY <1>1, MoveFacts DEF Load, TypeOK
<1>3. p # NULL /\ current[c] = p /\ Executing(c)
  BY <1>1 DEF Valid, Executing, Window
<1>4. ~Queued(p)
  BY <1>1, <1>3 DEF RunByOne
<1>5. ASSUME NEW i \in CPU, i # c, cpu[i].pc = "load"
      PROVE  cpu[i].caller \in PCB \ {p}
  <2>1. Valid(i) /\ cpu[i] \in Locals
    BY <1>1 DEF Inv, LocalsHold, TypeOK
  <2>2. cpu[i].caller \in PCB /\ current[i] = cpu[i].caller /\ Executing(i)
    BY <1>5, <2>1, PcbAssumption DEF Valid, Executing, Window, Locals
  <2>. QED  BY <1>1, <1>3, <1>5, <2>2 DEF RunByOne
<1>. HIDE DEF p
<1>6. StateIsSaved'
  BY <1>2, <1>5 DEF FreshInv, StateIsSaved
<1>7. ASSUME NEW q \in PCB, Queued(q)' PROVE Resumable(q)'
  <2>1. Queued(q) /\ q # p
    BY <1>1, <1>4, <1>7 DEF Queued
  <2>2. Resumable(q)
    BY <2>1 DEF FreshInv
  <2>. QED  BY <1>1, <1>2, <2>1, <2>2 DEF Resumable, Saving
<1>. QED  BY <1>6, <1>7 DEF FreshInv

\* One CPU cannot schedule while it blocks a process, and without calls that
\* block in two steps no CPU does.
SavedInTime == Uniprocessor \/ Blocking \cap Services = {}

LEMMA ScheduleKeepsFresh ==
  ASSUME SavedInTime, \A c \in CPU : Issued(c), Inv, FreshInv,
         NEW c \in CPU, Dispatch(c) \/ Wait(c) \/ Halt(c)
  PROVE  FreshInv'
<1>. TypeOK /\ LocalsHold /\ InOneList
  BY DEF Inv
<1>1. CASE Dispatch(c)
  <2>1. /\ cpu[c].pc = "sched" /\ ready # <<>> /\ ready' = Tail(ready)
        /\ UNCHANGED <<semq, saved>> /\ Enter(c, "load", Head(ready))
    BY <1>1 DEF Dispatch
  <2>2. ready \in Seq(PCB) /\ IsInjective(ready) /\ Head(ready) \in PCB
    BY <2>1, OneListFacts, HeadTailProperties
  <2>3. Head(ready) \in Range(ready) /\ Range(ready') = Range(ready) \ {Head(ready)}
    BY <2>1, <2>2, TailOfQueue
  <2>4. cpu'[c].pc = "load" /\ cpu'[c].caller = Head(ready)
        /\ \A i \in CPU \ {c} : cpu'[i] = cpu[i]
    BY <2>1, MoveFacts
  <2>5. \A p \in PCB : Queued(p)' => Queued(p)
    BY <2>1, <2>3 DEF Queued
  <2>6. \A i \in CPU : cpu[i].pc # "save"
    BY <2>1 DEF SavedInTime, Uniprocessor, Issued
  <2>7. saved[Head(ready)]
    BY <2>2, <2>3, <2>6 DEF FreshInv, Queued, Resumable, Saving
  <2>. QED  BY <2>1, <2>4, <2>5, <2>7, KeepsFresh
<1>2. CASE Wait(c) \/ Halt(c)
  <2>1. /\ cpu[c].pc = "sched" /\ cpu'[c].pc \in {"idle", "halted"}
        /\ \A i \in CPU \ {c} : cpu'[i] = cpu[i]
    BY <1>2, ScheduleFlow DEF Goes
  <2>2. UNCHANGED <<ready, semq, saved>>
    BY <1>2 DEF Wait, Halt, kernel, lists
  <2>. QED  BY <2>1, <2>2, KeepsFresh DEF Queued
<1>. QED  BY <1>1, <1>2

LEMMA CallKeepsFresh ==
  ASSUME TypeOK, LocalsHold, FreshInv, NEW c \in CPU, Call(c) PROVE FreshInv'
<1>1. /\ cpu[c].pc = "run" /\ cpu'[c].pc \in Handlers
      /\ \A i \in CPU \ {c} : cpu'[i] = cpu[i]
  BY CallFlow DEF Goes, Handlers
<1>2. UNCHANGED <<ready, semq, saved>>
  BY CallFlow DEF kernel, lists
<1>. QED  BY <1>1, <1>2, KeepsFresh DEF Queued, Handlers

\* The calls that block: the caller joins a queue and its state is saved,
\* before or after.
LEMMA BlockKeepsFresh ==
  ASSUME Inv, FreshInv, NEW c \in CPU,
         Block(c) \/ ClockWait(c) \/ DoIO(c) \/ Save(c)
  PROVE  FreshInv'
<1>. DEFINE p == cpu[c].caller
<1>1. TypeOK /\ LocalsHold /\ InOneList /\ RunByOne /\ Valid(c)
  BY DEF Inv, LocalsHold
<1>2. cpu[c].pc \in {"block", "clockwait", "doio", "save"} /\ UNCHANGED <<ready, pcbFree>>
  BY DEF Block, ClockWait, DoIO, Save, lists
<1>3. p \in PCB /\ current[c] = p /\ p # NULL
  BY <1>1, <1>2 DEF Valid, Handlers, Window, TypeOK, Locals
<1>4. /\ \A i \in CPU \ {c} : cpu'[i] = cpu[i]
      /\ Block(c) \/ ClockWait(c) => \A q : q = p => Saving(c, q)'
      /\ cpu'[c].pc \in {"save", "clear", "cmd"}
  <2>1. \E l \in {"save", "clear", "cmd"} : Move(c, l) /\ (Block(c) \/ ClockWait(c) => l = "save")
    BY <1>3 DEF Block, ClockWait, DoIO, Save
  <2>2. cpu'[c].caller = p
    BY <1>1, <2>1, MoveFacts
  <2>. QED  BY <1>1, <2>1, <2>2, MoveFacts DEF Saving
<1>5. /\ \A q \in PCB : saved[q] => saved'[q]
      /\ DoIO(c) \/ Save(c) => saved'[p]
  BY <1>1, <1>3 DEF Block, ClockWait, DoIO, Save, TypeOK
<1>6. cpu[c].pc = "save" => Save(c)
  <2>. Block(c) \/ ClockWait(c) \/ DoIO(c) => cpu[c].pc # "save"
    BY DEF Block, ClockWait, DoIO
  <2>. QED  OBVIOUS
<1>7. ASSUME NEW q \in PCB, Queued(q)' PROVE Queued(q) \/ (q = p /\ cpu[c].pc # "save")
  <2>1. CASE Save(c)
    <3>1. UNCHANGED <<ready, semq>>
      BY <2>1 DEF Save, lists
    <3>2. cpu[c].pc = "save"
      BY <2>1 DEF Save
    <3>. QED  BY <1>7, <3>1, <3>2 DEF Queued
  <2>2. CASE ~Save(c)
    <3>1. PICK k \in Key : InsertBlocked(k, p)
      BY <1>1, <1>2, <1>3, <2>2 DEF Block, ClockWait, DoIO, Valid, Key
    <3>2. Executing(c)
      BY <1>2, <1>3, <2>2 DEF Executing, Window, Block, ClockWait, DoIO
    <3>3. p \in Live /\ ~Queued(p)
      BY <1>1, <1>3, <3>2 DEF RunByOne
    <3>4. Queued(q) \/ q = p
      BY <1>1, <1>2, <1>3, <1>7, <3>1, <3>3, BlockQueue
    <3>. QED  BY <1>6, <2>2, <3>4
  <2>. QED  BY <2>1, <2>2
<1>. HIDE DEF p
<1>8. \A q \in PCB : Queued(q)' => Queued(q) \/ saved'[q] \/ Saving(c, q)'
  <2>. Save(c) => cpu[c].pc = "save"
    BY DEF Save
  <2>. QED  BY <1>4, <1>5, <1>7
<1>. QED  BY <1>1, <1>4, <1>5, <1>6, <1>8, KeepsFresh DEF p
\* The other steps of the handlers.
LEMMA CreateKeepsFresh ==
  ASSUME TypeOK, LocalsHold, InOneList, FreshInv, NEW c \in CPU, Create(c)
  PROVE  FreshInv'
<1>1. PICK p \in pcbFree : /\ pcbFree' = pcbFree \ {p} /\ ready' = Append(ready, p)
                           /\ semAdd' = [semAdd EXCEPT ![p] = NULL]
                           /\ saved' = [saved EXCEPT ![p] = TRUE]
  BY DEF Create
<1>2. p \in PCB /\ p \in Live' /\ Live \subseteq Live' /\ semq' = semq
  BY <1>1 DEF Create, TypeOK, Live
<1>3. ~Queued(p)
  BY <1>1, <1>2, OneListFacts DEF Live
<1>4. \A q \in PCB \ {p} : semAdd'[q] = semAdd[q]
  BY <1>1, <1>2 DEF TypeOK
<1>5. \A q \in PCB : Queued(q)' <=> Queued(q) \/ q = p
  BY <1>1, <1>2, <1>3, <1>4, AppendReady
<1>6. saved'[p] /\ \A q \in PCB : saved[q] => saved'[q]
  BY <1>1, <1>2 DEF TypeOK
<1>7. Goes(c, {"create"}, {"run"})
  BY HandleFlow
<1>. QED  BY <1>5, <1>6, <1>7, KeepsFresh DEF Goes

LEMMA KillKeepsFresh ==
  ASSUME TypeOK, InOneList, FreshInv, NEW c \in CPU, KillOne(c) PROVE FreshInv'
<1>1. PICK p \in PCB : Detach(p)
  BY DEF KillOne, Subtree, RemovePcb
<1>2. \A q \in PCB : Queued(q)' => Queued(q)
  BY <1>1, DetachQueue DEF Queued
<1>3. /\ saved' = saved
      /\ \A i \in CPU : cpu'[i].pc = cpu[i].pc /\ cpu'[i].caller = cpu[i].caller
  BY KillFlow DEF KillOne
<1>. QED  BY <1>2, <1>3 DEF FreshInv, StateIsSaved, Resumable, Saving

LEMMA HandleKeepsFresh ==
  ASSUME Inv, FreshInv, NEW c \in CPU, Handle(c) PROVE FreshInv'
<1>. TypeOK /\ LocalsHold /\ InOneList
  BY DEF Inv
<1>1. CASE Pass(c)
  <2>1. Goes(c, {"pass"}, {"run"})
    BY <1>1, HandleFlow
  <2>2. cpu[c].sem \in Key /\ UNCHANGED <<saved, semAdd, pcbFree>>
    BY <1>1 DEF LocalsHold, Valid, Pass
  <2>3. CASE semq[cpu[c].sem] # <<>>
    <3>1. Wake(cpu[c].sem)
      BY <1>1, <2>3 DEF Pass, Release
    <3>2. \A p \in PCB : Queued(p)' <=> Queued(p)
      BY <2>2, <2>3, <3>1, WakeQueue
    <3>. QED  BY <2>1, <2>2, <3>2, KeepsFresh DEF Goes
  <2>4. CASE semq[cpu[c].sem] = <<>>
    <3>1. UNCHANGED <<semq, ready>>
      BY <1>1, <2>4 DEF Pass, Release
    <3>. QED  BY <2>1, <2>2, <3>1, KeepsFresh DEF Goes, Queued
  <2>. QED  BY <2>3, <2>4
<1>2. CASE \/ CreateFails(c) \/ FirstTest(c) \/ SecondTest(c) \/ Clear(c) \/ Command(c)
           \/ Term(c) \/ TermPid(c) \/ SearchFaults(c) \/ EndKill(c)
  <2>1. /\ cpu[c].pc # "save" /\ cpu'[c].pc # "load"
        /\ \A i \in CPU \ {c} : cpu'[i] = cpu[i]
    BY <1>2, HandleFlow, KillFlow DEF Goes, Killing
  <2>2. UNCHANGED <<ready, semq, saved>>
    BY <1>2 DEF CreateFails, FirstTest, SecondTest, Clear, Command, Term, TermPid,
                SearchFaults, EndKill, kernel, lists
  <2>. QED  BY <2>1, <2>2, KeepsFresh DEF Queued
<1>. QED  BY <1>1, <1>2, BlockKeepsFresh, CreateKeepsFresh, KillKeepsFresh DEF Handle

LEMMA InterruptKeepsFresh ==
  ASSUME Inv, FreshInv, NEW c \in CPU, Interrupt(c) PROVE FreshInv'
<1>. TypeOK /\ LocalsHold /\ InOneList /\ RunByOne
  BY DEF Inv
<1>1. /\ cpu[c].pc # "save" /\ cpu'[c].pc # "load"
      /\ \A i \in CPU \ {c} : cpu'[i] = cpu[i]
  BY InterruptFlow DEF Interrupt, Goes
<1>2. CASE TakeInterrupt(c) \/ ReadBitmap(c)
  <2>. UNCHANGED <<ready, semq, saved>>
    BY <1>2 DEF TakeInterrupt, ReadBitmap, kernel, lists
  <2>. QED  BY <1>1, KeepsFresh DEF Queued
<1>3. CASE ServeInterrupt(c)
  <2>1. /\ cpu[c].sem \in Key \cup {NoDev} /\ UNCHANGED <<saved, semAdd, pcbFree>>
    BY <1>3 DEF LocalsHold, Valid, ServeInterrupt
  <2>2. \A p \in PCB : Queued(p)' <=> Queued(p)
    <3>1. CASE UNCHANGED <<semq, ready>>
      BY <3>1 DEF Queued
    <3>2. CASE \E k \in Key : semq[k] # <<>> /\ Wake(k)
      BY <2>1, <3>2, WakeQueue
    <3>. QED  BY <1>3, <2>1, <3>1, <3>2 DEF ServeInterrupt, Unblock
  <2>. QED  BY <1>1, <2>1, <2>2, KeepsFresh
<1>4. CASE Tick(c)
  <2>1. \A p \in PCB : Queued(p)' <=> Queued(p)
    BY <1>4, TickQueue DEF Tick
  <2>. QED  BY <1>1, <1>4, <2>1, KeepsFresh DEF Tick
<1>5. CASE Preempt(c)
  <2>1. cpu[c].pc = "run" /\ Valid(c)
    BY <1>5 DEF Preempt, LocalsHold
  <2>2. PICK p \in PCB : p = current[c] /\ Executing(c)
    BY <2>1 DEF Valid, Executing, Window, TypeOK
  <2>3. p \in Live /\ ~Queued(p)
    BY <2>2 DEF RunByOne
  <2>4. /\ ready' = Append(ready, p) /\ saved' = [saved EXCEPT ![p] = TRUE]
        /\ UNCHANGED <<semq, semAdd, pcbFree>>
    BY <1>5, <2>2 DEF Preempt, Executing
  <2>5. \A q \in PCB : Queued(q)' <=> Queued(q) \/ q = p
    BY <2>3, <2>4, AppendReady DEF Live
  <2>6. saved'[p] /\ \A q \in PCB : saved[q] => saved'[q]
    BY <2>4 DEF TypeOK
  <2>. QED  BY <1>1, <2>5, <2>6, KeepsFresh
<1>. QED  BY <1>2, <1>3, <1>4, <1>5 DEF Interrupt

LEMMA StepKeepsFresh ==
  ASSUME SavedInTime, Inv, \A c \in CPU : Issued(c), FreshInv, [Next]_vars
  PROVE  (\A c \in CPU : Issued(c))' /\ FreshInv'
<1>. TypeOK /\ LocalsHold
  BY DEF Inv
<1>1. CASE UNCHANGED <<ready, semq, saved, cpu>>
  BY <1>1 DEF FreshInv, StateIsSaved, Resumable, Saving, Queued, Issued
<1>2. CASE UNCHANGED vars \/ \E d \in Dev : Complete(d)
  BY <1>1, <1>2 DEF vars, lists, Complete, kernel
<1>3. ASSUME NEW c \in CPU, Schedule(c) \/ Call(c) \/ Handle(c) \/ Interrupt(c)
      PROVE  (\A i \in CPU : Issued(i))' /\ FreshInv'
  BY <1>3, StepIssued, LoadKeepsFresh, ScheduleKeepsFresh, CallKeepsFresh, HandleKeepsFresh,
     InterruptKeepsFresh DEF Schedule
<1>. QED  BY <1>2, <1>3 DEF Next, Runs, Stays

-----------------------------------------------------------------------------
(* Theorems *)

\* A fault is one of the three that the code leaves open, on any number of
\* CPUs: until a process is killed while another CPU has it, no handler falls
\* through or dereferences NULL at another place.
THEOREM OnlyTheseFaults ==
  Spec => [][intact => \A c \in CPU : cpu[c].pc # "wild" /\ cpu'[c].pc = "wild"
                                         => FaultsAt(c)]_vars
<1>1. ASSUME Inv, Next
      PROVE  \A c \in CPU : cpu[c].pc # "wild" /\ cpu'[c].pc = "wild" => FaultsAt(c)
  <2>. TypeOK /\ LocalsHold
    BY <1>1 DEF Inv
  <2>1. CASE Stays \/ \E d \in Dev : Complete(d)
    BY <2>1 DEF Stays, vars, Complete
  <2>2. ASSUME NEW c \in CPU, Schedule(c) \/ Call(c) \/ Handle(c) \/ Interrupt(c)
        PROVE  \A i \in CPU : cpu[i].pc # "wild" /\ cpu'[i].pc = "wild" => FaultsAt(i)
    BY <2>2, StepFaults
  <2>. QED  BY <1>1, <2>1, <2>2 DEF Next, Runs
<1>2. Spec => [](intact => Inv)
  BY NucleusInvariant
<1>. QED  BY <1>1, <1>2, PTL DEF Spec

\* As long as no handler has faulted the lock is never left behind, on any
\* number of CPUs and with any services: every path of a handler gives it
\* back, and only a killTree keeps it for more than a step.
THEOREM LockComesBack == Spec => [](intact /\ NoneWild => LockAtKill)
<1>1. TypeOK /\ HeldByKiller => (NoneWild => LockAtKill)
  BY DEF HeldByKiller, NoneWild, LockAtKill, TypeOK
<1>2. Spec => []TypeOK
  BY TypeCorrect
<1>3. Spec => [](intact => HeldByKiller)
  BY LockInvariant
<1>. QED  BY <1>1, <1>2, <1>3, PTL

\* No handler of a careful workload faults.
THEOREM HandlersDoNotFault == ASSUME Careful PROVE Spec => []NoFault
<1>1. FaultInv => NoneWild
  BY DEF FaultInv
<1>2. Spec => [](intact => FaultInv)
  BY FaultInvariant
<1>. QED  BY <1>1, <1>2, PTL DEF NoFault

\* Nor does a careful workload ever find the lock left behind.
THEOREM LockIsNeverLeft == ASSUME Careful PROVE Spec => []LockIsReleased
<1>1. Spec => []NoFault
  BY HandlersDoNotFault
<1>2. Spec => [](intact /\ NoneWild => LockAtKill)
  BY LockComesBack
<1>. QED  BY <1>1, <1>2, PTL DEF NoFault, LockIsReleased

\* The processor loads the state with which the process has left its last
\* CPU, never an older one, on one CPU and, on several, as long as no call
\* puts its caller into a queue before it has saved its state.
THEOREM ResumedStateIsFresh == ASSUME SavedInTime PROVE Spec => []FreshResume
<1>1. Init => FreshInv /\ \A c \in CPU : Issued(c)
  <2>. SUFFICES ASSUME Init PROVE FreshInv /\ \A c \in CPU : Issued(c)
    OBVIOUS
  <2>1. \A c \in CPU : cpu[c].pc = "sched"
    BY DEF Init, Forget, Local
  <2>2. \A p \in PCB : saved[p]
    BY DEF Init
  <2>. QED  BY <2>1, <2>2 DEF FreshInv, StateIsSaved, Resumable, Issued
<1>2. /\ Inv /\ FreshInv /\ (\A c \in CPU : Issued(c)) /\ [Next]_vars
      => FreshInv' /\ (\A c \in CPU : Issued(c))'
  BY StepKeepsFresh
<1>3. FreshInv => StateIsSaved
  BY DEF FreshInv
<1>4. [Next]_vars /\ intact' => intact
  BY StaysIntact
<1>5. Spec => [](intact => Inv)
  BY NucleusInvariant
<1>. QED  BY <1>1, <1>2, <1>3, <1>4, <1>5, PTL DEF Spec, FreshResume

-----------------------------------------------------------------------------
(* Devices: who waits for one is woken by the completion of its own command, *)
(* as long as no two CPUs can serve two devices of the line at once: the     *)
(* device number that getDevNo reads outside the lock is then still that of  *)
(* a pending device when the lock has been taken.                            *)

\* One CPU, or one device on the line.
Unshared == (\A c, i \in CPU : c = i) \/ (\A d, e \in Dev : d = e)

\* A CPU that has taken an interrupt, or has read which device it is from,
\* is the CPU of a device that is still pending.
PendingOf(c, d) == dev[d] = "done" /\ irt[d] = c
Serves(c) ==
  /\ cpu[c].pc = "trapped" => \E d \in Dev : PendingOf(c, d)
  /\ cpu[c].pc = "irq" => cpu[c].sem \in Dev /\ PendingOf(c, cpu[c].sem)
  /\ cpu[c].pc \in {"test1", "test2", "pass"} => cpu[c].sem \in Sem
DInv == \A c \in CPU : Serves(c)

-----------------------------------------------------------------------------
\* A CPU that goes elsewhere has no device to serve any more.
LEMMA Elsewhere ==
  ASSUME DInv, NEW c \in CPU, \A i \in CPU \ {c} : cpu'[i] = cpu[i],
         \A d \in Dev : dev[d] = "done" => dev'[d] = "done", irt' = irt,
         cpu'[c].pc \notin {"trapped", "irq", "test1", "test2", "pass"}
  PROVE  DInv'
<1>1. Serves(c)'
  BY DEF Serves
<1>2. ASSUME NEW i \in CPU \ {c} PROVE Serves(i)'
  BY <1>2 DEF DInv, Serves, PendingOf
<1>. QED  BY <1>1, <1>2 DEF DInv

\* The scheduler and the requests of the workload.
LEMMA ScheduleServes ==
  ASSUME TypeOK, DInv, NEW c \in CPU, Schedule(c) PROVE DInv'
<1>1. /\ cpu'[c].pc \in {"load", "run", "idle", "halted"} /\ UNCHANGED devs
      /\ \A i \in CPU \ {c} : cpu'[i] = cpu[i]
  BY MoveFacts DEF Schedule, Dispatch, Load, Wait, Halt
<1>. QED  BY <1>1, Elsewhere DEF devs

LEMMA CallServes ==
  ASSUME TypeOK, DInv, NEW c \in CPU, Call(c) PROVE DInv'
<1>t. cpu \in [CPU -> Locals]
  BY DEF TypeOK
<1>1. ASSUME NEW l, NEW k, NEW v, NEW x, Request(c, l, k, v, x)
      PROVE  /\ cpu'[c].pc = l /\ cpu'[c].sem = k /\ UNCHANGED devs
             /\ \A i \in CPU \ {c} : cpu'[i] = cpu[i]
  BY <1>t, <1>1 DEF Request, Local
<1>2. CASE CallP(c) \/ CallV(c)
  BY <1>1, <1>2 DEF CallP, CallV, DInv, Serves, PendingOf, devs
<1>3. CASE ProgramTrap(c)
  <2>1. /\ cpu'[c].pc \in {"wild", "term"} /\ UNCHANGED devs
        /\ \A i \in CPU \ {c} : cpu'[i] = cpu[i]
    BY <1>3, MoveFacts DEF ProgramTrap
  <2>. QED  BY <2>1, Elsewhere DEF devs
<1>4. ASSUME NEW l \in {"create", "term", "termpid", "doio", "clockwait"},
             NEW k, NEW v, NEW x, Request(c, l, k, v, x)
      PROVE  DInv'
  BY <1>1, <1>4, Elsewhere DEF devs
<1>. QED  BY <1>2, <1>3, <1>4 DEF Call, CallCreate, CallTerm, CallTermPid, CallDoIO, CallClockWait

\* The handlers of the system calls.
LEMMA HandleServes ==
  ASSUME TypeOK, DInv, NEW c \in CPU, Handle(c) PROVE DInv'
<1>. USE MoveFacts
<1>t. cpu \in [CPU -> Locals] /\ dev \in [Dev -> {"idle", "busy", "done"}] /\ Serves(c)
  BY DEF TypeOK, DInv
<1>1. CASE FirstTest(c) \/ SecondTest(c)
  <2>1. /\ cpu[c].pc \in {"test1", "test2"} /\ UNCHANGED devs
        /\ cpu'[c].pc \in {"block", "test2", "pass", "wild"}
        /\ cpu'[c].sem = cpu[c].sem /\ \A i \in CPU \ {c} : cpu'[i] = cpu[i]
    BY <1>1 DEF FirstTest, SecondTest
  <2>. QED  BY <1>t, <2>1 DEF DInv, Serves, PendingOf, devs
<1>2. CASE Command(c)
  <2>1. \A d \in Dev : dev[d] = "done" => dev'[d] = "done"
    BY <1>t, <1>2 DEF Command
  <2>2. cpu'[c].pc = "sched" /\ irt' = irt /\ \A i \in CPU \ {c} : cpu'[i] = cpu[i]
    BY <1>2 DEF Command
  <2>. QED  BY <2>1, <2>2, Elsewhere
<1>3. CASE \/ Create(c) \/ CreateFails(c) \/ Block(c) \/ Pass(c) \/ ClockWait(c)
           \/ Save(c) \/ Clear(c) \/ DoIO(c) \/ SearchFaults(c) \/ EndKill(c)
  <2>1. /\ UNCHANGED devs /\ \A i \in CPU \ {c} : cpu'[i] = cpu[i]
        /\ cpu'[c].pc \in {"run", "wild", "save", "clear", "sched", "cmd"}
    BY <1>3 DEF Create, CreateFails, Block, Pass, ClockWait, Save, Clear, DoIO,
                SearchFaults, EndKill, Fault
  <2>. QED  BY <2>1, Elsewhere DEF devs
<1>4. CASE Term(c) \/ TermPid(c)
  <2>1. ASSUME NEW r, NEW l \in Killing, StartKill(c, r, l)
        PROVE  cpu'[c].pc \in Killing /\ \A i \in CPU \ {c} : cpu'[i] = cpu[i]
    BY <1>t, <2>1 DEF StartKill, Killing, Locals
  <2>2. /\ UNCHANGED devs /\ \A i \in CPU \ {c} : cpu'[i] = cpu[i]
        /\ cpu'[c].pc \in Killing \cup {"sched", "run"}
    BY <1>4, <2>1 DEF Term, TermPid, Killing
  <2>. QED  BY <2>2, Elsewhere DEF devs, Killing
<1>5. CASE KillOne(c)
  <2>1. PICK p \in PCB : RemovePcb(c, p)
    BY <1>5 DEF KillOne, Subtree
  <2>2. \A i \in CPU : cpu'[i].pc = cpu[i].pc /\ cpu'[i].sem = cpu[i].sem
    BY <1>t, <2>1 DEF RemovePcb, Forgotten, Locals
  <2>. QED  BY <1>5, <2>2 DEF KillOne, DInv, Serves, PendingOf, devs
<1>. QED  BY <1>1, <1>2, <1>3, <1>4, <1>5 DEF Handle

\* After an interrupt a CPU has no device to serve.
LEMMA AfterInterruptServes ==
  ASSUME TypeOK, NEW c \in CPU, AfterInterrupt(c)
  PROVE  cpu'[c].pc \in {"sched", "wild", "run"} /\ \A i \in CPU \ {c} : cpu'[i] = cpu[i]
BY MoveFacts DEF AfterInterrupt

\* The one step that takes a pending device away from another CPU would be
\* the interrupt handler's: but the device is pending for its own CPU.
LEMMA InterruptServes ==
  ASSUME Unshared, TypeOK, DInv, NEW c \in CPU, Interrupt(c) PROVE DInv'
<1>. USE MoveFacts
<1>t. /\ cpu \in [CPU -> Locals] /\ dev \in [Dev -> {"idle", "busy", "done"}]
      /\ Serves(c) /\ NoDev \notin Dev
  BY DevAssumption DEF TypeOK, DInv, NoDev
<1>1. CASE TakeInterrupt(c)
  BY <1>1 DEF TakeInterrupt, DInv, Serves, PendingOf, devs
<1>2. CASE ReadBitmap(c)
  <2>1. PICK d \in Dev \cup {NoDev} :
          IsDevNo(d) /\ cpu' = [cpu EXCEPT ![c].pc = "irq", ![c].sem = d]
    BY <1>2 DEF ReadBitmap
  <2>2. PICK e \in Dev : PendingOf(c, e)
    BY <1>t, <1>2 DEF ReadBitmap, Serves
  <2>3. d \in Dev /\ dev[d] = "done"
    BY <1>t, <2>1, <2>2 DEF IsDevNo, PendingOf
  <2>4. irt[d] = c
    BY <2>2, <2>3 DEF Unshared, PendingOf, TypeOK
  <2>5. /\ cpu'[c].pc = "irq" /\ cpu'[c].sem = d
        /\ \A i \in CPU \ {c} : cpu'[i] = cpu[i]
    BY <1>t, <2>1 DEF Locals
  <2>6. UNCHANGED devs
    BY <1>2 DEF ReadBitmap
  <2>7. Serves(c)'
    BY <2>3, <2>4, <2>5, <2>6 DEF Serves, PendingOf, devs
  <2>8. ASSUME NEW i \in CPU \ {c} PROVE Serves(i)'
    BY <2>5, <2>6, <2>8 DEF DInv, Serves, PendingOf, devs
  <2>. QED  BY <2>7, <2>8 DEF DInv
<1>3. CASE ServeInterrupt(c)
  <2>1. /\ cpu[c].sem \in Dev /\ PendingOf(c, cpu[c].sem) /\ irt' = irt
        /\ \A d \in Dev \ {cpu[c].sem} : dev'[d] = dev[d]
        /\ cpu'[c].pc \in {"sched", "wild", "run"} /\ \A i \in CPU \ {c} : cpu'[i] = cpu[i]
    BY <1>t, <1>3, AfterInterruptServes DEF ServeInterrupt, Serves
  <2>2. ASSUME NEW i \in CPU, i # c, NEW d \in Dev PROVE PendingOf(i, d) => PendingOf(i, d)'
    BY <2>1, <2>2 DEF PendingOf
  <2>. QED  BY <2>1, <2>2 DEF DInv, Serves
<1>4. CASE Preempt(c) \/ Tick(c)
  <2>1. /\ cpu'[c].pc \in {"sched", "wild", "run"} /\ \A i \in CPU \ {c} : cpu'[i] = cpu[i]
        /\ UNCHANGED devs
    BY <1>4, AfterInterruptServes DEF Preempt, Tick
  <2>. QED  BY <2>1, Elsewhere DEF devs
<1>. QED  BY <1>1, <1>2, <1>3, <1>4 DEF Interrupt

LEMMA StepServes ==
  ASSUME Unshared, TypeOK, DInv, [Next]_vars PROVE DInv'
<1>1. CASE UNCHANGED vars
  BY <1>1 DEF vars, devs, DInv, Serves, PendingOf
<1>2. ASSUME NEW d \in Dev, Complete(d) PROVE DInv'
  <2>1. /\ dev[d] = "busy" /\ cpu' = cpu
        /\ \A e \in Dev \ {d} : dev'[e] = dev[e] /\ irt'[e] = irt[e]
    BY <1>2 DEF Complete, TypeOK
  <2>2. ASSUME NEW i \in CPU, NEW e \in Dev, PendingOf(i, e) PROVE PendingOf(i, e)'
    BY <2>1, <2>2 DEF PendingOf
  <2>. QED  BY <2>1, <2>2 DEF DInv, Serves
<1>. QED  BY <1>1, <1>2, ScheduleServes, CallServes, HandleServes, InterruptServes
          DEF Next, Runs, Stays

-----------------------------------------------------------------------------
\* What a step brings into the ready queue from the queue of a device.
Woken(d) == \A p \in Range(semq[d]) : p \in Range(ready') => dev[d] = "done"

\* Nothing in the ready queue waits, so a step that puts one process into it
\* wakes nobody who waits for another device.
LEMMA OneWoken ==
  ASSUME TypeOK, InOneList, NEW d \in Dev, NEW p, Range(ready') \subseteq Range(ready) \cup {p},
         p \in Range(semq[d]) => dev[d] = "done"
  PROVE  Woken(d)
BY DEF Woken, InOneList, Key

LEMMA NoneWoken ==
  ASSUME InOneList, NEW d \in Dev, Range(ready') \subseteq Range(ready) PROVE Woken(d)
BY DEF Woken, InOneList, Key

LEMMA WakeWakesOne ==
  ASSUME TypeOK, InOneList, NEW k \in Key, NEW d \in Dev,
         Wake(k), semq[k] # <<>>, k = d => dev[d] = "done"
  PROVE  Woken(d)
<1>1. /\ ready \in Seq(PCB) /\ semq[k] \in Seq(PCB) /\ IsInjective(semq[k])
      /\ d \in Key
  BY OneListFacts DEF Key
<1>2. Head(semq[k]) \in Range(semq[k]) /\ Head(semq[k]) \in PCB
  BY <1>1, TailOfQueue, HeadTailProperties
<1>3. Range(ready') = Range(ready) \cup {Head(semq[k])}
  BY <1>1, <1>2, AppendToQueue DEF Wake
<1>4. Head(semq[k]) \in Range(semq[d]) => k = d
  BY <1>1, <1>2 DEF InOneList
<1>. QED  BY <1>3, <1>4, OneWoken

LEMMA StepWakes ==
  ASSUME Inv, DInv, [Next]_vars, NEW d \in Dev PROVE Woken(d)
<1>. TypeOK /\ InOneList /\ RunByOne /\ d \in Key /\ d \notin Sem /\ d # CLOCK /\ CLOCK \in Key
  BY KeyAssumption DEF Inv, Key
<1>t. /\ ready \in Seq(PCB) /\ semq \in [Key -> Seq(PCB)] /\ IsInjective(ready)
      /\ \A k \in Key : IsInjective(semq[k])
  BY OneListFacts
<1>1. CASE UNCHANGED ready
  BY <1>1, NoneWoken
<1>2. ASSUME NEW c \in CPU, Dispatch(c) PROVE Woken(d)
  <2>1. Range(ready') \subseteq Range(ready)
    BY <1>t, <1>2, TailOfQueue DEF Dispatch
  <2>. QED  BY <2>1, NoneWoken
<1>3. ASSUME NEW c \in CPU, Create(c) PROVE Woken(d)
  <2>1. PICK p \in pcbFree : ready' = Append(ready, p)
    BY <1>3 DEF Create
  <2>2. p \in PCB /\ p \notin Range(semq[d])
    BY DEF InOneList, Live, TypeOK
  <2>3. Range(ready') = Range(ready) \cup {p}
    BY <1>t, <2>1, <2>2, AppendToQueue
  <2>. QED  BY <2>2, <2>3, OneWoken
<1>4. ASSUME NEW c \in CPU, Pass(c) PROVE Woken(d)
  <2>1. cpu[c].sem \in Sem /\ cpu[c].sem \in Key /\ Release(cpu[c].sem, cpu[c].at)
    BY <1>4 DEF Pass, DInv, Serves, Key
  <2>. QED  BY <1>1, <2>1, WakeWakesOne DEF Release
<1>5. ASSUME NEW c \in CPU, ServeInterrupt(c) PROVE Woken(d)
  <2>1. cpu[c].sem \in Dev /\ dev[cpu[c].sem] = "done" /\ cpu[c].sem # NoDev
    BY <1>5, DevAssumption DEF ServeInterrupt, DInv, Serves, PendingOf, NoDev
  <2>2. cpu[c].sem \in Key /\ Unblock(cpu[c].sem)
    BY <1>5, <2>1 DEF ServeInterrupt, Key
  <2>. QED  BY <1>1, <2>1, <2>2, WakeWakesOne DEF Unblock
<1>6. ASSUME NEW c \in CPU, Preempt(c) PROVE Woken(d)
  <2>1. CASE current[c] # NULL
    <3>1. /\ cpu[c].pc = "run" /\ current[c] \in PCB /\ ~Queued(current[c])
          /\ ready' = Append(ready, current[c])
      BY <1>6, <2>1 DEF Preempt, RunByOne, Executing, Window, TypeOK
    <3>2. Range(ready') = Range(ready) \cup {current[c]} /\ current[c] \notin Range(semq[d])
      BY <1>t, <3>1, AppendToQueue DEF Queued
    <3>. QED  BY <3>2, OneWoken
  <2>. QED  BY <1>1, <1>6, <2>1 DEF Preempt
<1>7. ASSUME NEW c \in CPU, Tick(c) PROVE Woken(d)
  <2>1. Range(ready) \cap Range(semq[CLOCK]) = {}
    BY DEF InOneList
  <2>2. Range(ready') = Range(ready) \cup Range(semq[CLOCK])
    BY <1>t, <1>7, <2>1, ConcatOfQueues DEF Tick
  <2>3. Range(semq[CLOCK]) \cap Range(semq[d]) = {}
    BY DEF InOneList
  <2>. QED  BY <2>2, <2>3 DEF Woken, InOneList
<1>8. ASSUME NEW c \in CPU, KillOne(c) PROVE Woken(d)
  <2>1. PICK p : ready' = RemoveFirst(ready, p)
    BY <1>8 DEF KillOne, RemovePcb, Detach
  <2>2. Range(ready') \subseteq Range(ready)
    BY <1>t, <2>1, RemoveFromQueue
  <2>. QED  BY <2>2, NoneWoken
<1>9. ASSUME NEW c \in CPU, Schedule(c), ~Dispatch(c) PROVE UNCHANGED ready
  BY <1>9 DEF Schedule, Load, Wait, Halt, kernel, lists
<1>10. ASSUME NEW c \in CPU, Call(c) PROVE UNCHANGED ready
  BY <1>10 DEF Call, CallCreate, CallTerm, CallTermPid, CallP, CallV, CallDoIO,
               CallClockWait, ProgramTrap, Request, kernel, lists
<1>11. ASSUME NEW c \in CPU, Handle(c), ~Create(c), ~Pass(c), ~KillOne(c) PROVE UNCHANGED ready
  BY <1>11 DEF Handle, CreateFails, FirstTest, SecondTest, Block, ClockWait, Save, Clear,
               DoIO, Command, Term, TermPid, SearchFaults, EndKill, kernel, lists
<1>12. ASSUME NEW c \in CPU, TakeInterrupt(c) \/ ReadBitmap(c) PROVE UNCHANGED ready
  BY <1>12 DEF TakeInterrupt, ReadBitmap, kernel, lists
<1>13. ASSUME NEW e \in Dev, Complete(e) PROVE UNCHANGED ready
  BY <1>13 DEF Complete, kernel, lists
<1>14. CASE UNCHANGED vars
  BY <1>1, <1>14 DEF vars, lists
<1>. QED  BY <1>1, <1>2, <1>3, <1>4, <1>5, <1>6, <1>7, <1>8, <1>9, <1>10, <1>11, <1>12,
             <1>13, <1>14 DEF Next, Runs, Stays, Interrupt

-----------------------------------------------------------------------------
LEMMA DInvHolds == ASSUME Unshared PROVE Spec => []DInv
<1>1. Init => DInv
  BY DEF Init, Forget, Local, DInv, Serves
<1>2. TypeOK /\ DInv /\ [Next]_vars => DInv'
  BY StepServes
<1>3. Spec => []TypeOK
  BY TypeCorrect
<1>. QED  BY <1>1, <1>2, <1>3, PTL DEF Spec

\* On one CPU, or with one device on the line, a process that waits for a
\* device gets back into the ready queue only when the device has completed
\* its command.
THEOREM WokenOnCompletion == ASSUME Unshared PROVE Spec => WokenByCompletion
<1>1. Inv /\ DInv /\ [Next]_vars =>
        \A d \in Dev : \A p \in Range(semq[d]) : p \in Range(ready') => dev[d] = "done"
  BY StepWakes DEF Woken
<1>2. Spec => [](intact => Inv)
  BY NucleusInvariant
<1>3. Spec => []DInv
  BY DInvHolds
<1>. QED  BY <1>1, <1>2, <1>3, PTL DEF Spec, WokenByCompletion

\* ... and getDevNo finds a pending device whenever the interrupt handler
\* looks for one, whatever has been killed.
THEOREM DeviceIsFound == ASSUME Unshared PROVE Spec => []DeviceFound
<1>1. DInv => DeviceFound
  BY DevAssumption DEF DInv, Serves, DeviceFound, NoDev
<1>2. Spec => []DInv
  BY DInvHolds
<1>. QED  BY <1>1, <1>2, PTL

-----------------------------------------------------------------------------
(* Who waits for a device will be answered *)

\* c holds the request of its caller for d: it has still to put the caller
\* into the queue, or it has done so and has still to write the command.
Asks(c, d)     == cpu[c].pc = "doio" /\ cpu[c].sem = d
Commands(c, d) == cpu[c].pc = "cmd" /\ cpu[c].sem = d

\* One request at a time for d, whose device is idle until it has the command.
Answered(d) ==
  /\ \A c, i \in CPU : (Asks(c, d) \/ Commands(c, d)) /\ (Asks(i, d) \/ Commands(i, d)) => c = i
  /\ \A c \in CPU : Asks(c, d) => dev[d] = "idle" /\ Range(semq[d]) = {}
  /\ \A c \in CPU : Commands(c, d) => dev[d] = "idle"
  /\ \A p, q \in Range(semq[d]) : p = q
  /\ dev[d] = "idle" /\ Range(semq[d]) # {} => \E c \in CPU : Commands(c, d)

WInv == (\A d \in Dev : Answered(d)) /\ \A c \in CPU : Separate(c)

\* A step that changes no device and no request, and puts nobody into the
\* queue of a device.
LEMMA Undisturbed ==
  ASSUME WInv, dev' = dev,
         \A d \in Dev : Range(semq'[d]) \subseteq Range(semq[d]),
         \A d \in Dev : \A i \in CPU : /\ Asks(i, d)' => Asks(i, d)
                                       /\ Commands(i, d)' <=> Commands(i, d)
  PROVE  \A d \in Dev : Answered(d)'
BY DEF WInv, Answered

\* A step of c that neither starts nor ends a request.
LEMMA Uninvolved ==
  ASSUME WInv, NEW c \in CPU, dev' = dev,
         \A d \in Dev : Range(semq'[d]) \subseteq Range(semq[d]),
         \A i \in CPU \ {c} : cpu'[i] = cpu[i],
         cpu[c].pc \notin {"doio", "cmd"}, cpu'[c].pc \notin {"doio", "cmd"}
  PROVE  \A d \in Dev : Answered(d)'
<1>1. \A d \in Dev : \A i \in CPU : /\ Asks(i, d)' => Asks(i, d)
                                    /\ Commands(i, d)' <=> Commands(i, d)
  BY DEF Asks, Commands
<1>. QED  BY <1>1, Undisturbed

\* A request starts only when the device is idle and nobody waits for it.
LEMMA CallAnswers ==
  ASSUME "shareddevice" \notin Liberties, TypeOK, LocalsHold, WInv,
         NEW c \in CPU, Call(c)
  PROVE  \A d \in Dev : Answered(d)'
<1>1. /\ cpu[c].pc = "run" /\ dev' = dev /\ semq' = semq
      /\ \A i \in CPU \ {c} : cpu'[i] = cpu[i]
  BY CallFlow DEF Goes, kernel, lists, devs
<1>2. CASE CallDoIO(c)
  <2>1. PICK d \in Dev : /\ semq[d] = <<>> /\ dev[d] = "idle"
                         /\ \A i \in CPU : cpu[i].pc \in {"doio", "cmd"} => cpu[i].sem # d
                         /\ Request(c, "doio", d, 0, NULL)
    BY <1>2 DEF CallDoIO
  <2>2. cpu'[c].pc = "doio" /\ cpu'[c].sem = d
    BY <2>1, RequestFlow DEF Goes
  <2>3. Range(semq[d]) = {}
    BY <2>1 DEF Range
  <2>4. Answered(d)'
    BY <1>1, <2>1, <2>2, <2>3 DEF Answered, Asks, Commands
  <2>5. ASSUME NEW e \in Dev, e # d PROVE Answered(e)'
    <3>1. \A i \in CPU : (Asks(i, e)' <=> Asks(i, e)) /\ (Commands(i, e)' <=> Commands(i, e))
      BY <1>1, <2>2, <2>5 DEF Asks, Commands
    <3>. QED  BY <1>1, <3>1 DEF WInv, Answered
  <2>. QED  BY <2>4, <2>5
<1>3. CASE ~CallDoIO(c)
  <2>1. cpu'[c].pc \notin {"doio", "cmd"}
    <3>1. CASE ProgramTrap(c)
      <4>1. \E l \in {"term", "wild"} : Enter(c, l, current[c])
        BY <3>1 DEF ProgramTrap
      <4>. QED  BY <4>1, MoveFacts
    <3>2. ASSUME NEW l \in {"create", "term", "termpid", "test1", "clockwait"},
                 NEW k, NEW v, NEW x, Request(c, l, k, v, x)
          PROVE  cpu'[c].pc \notin {"doio", "cmd"}
      BY <3>2, RequestFlow DEF Goes
    <3>. QED  BY <1>3, <3>1, <3>2 DEF Call, CallCreate, CallTerm, CallTermPid, CallP, CallV,
                                       CallClockWait
  <2>. QED  BY <1>1, <2>1, Uninvolved
<1>. QED  BY <1>2, <1>3

\* DOIO makes its caller the only process in the queue ...
LEMMA DoIOAnswers ==
  ASSUME TypeOK, LocalsHold, WInv, NEW c \in CPU, DoIO(c)
  PROVE  \A d \in Dev : Answered(d)'
<1>. DEFINE d == cpu[c].sem
<1>1. /\ cpu[c].pc = "doio" /\ cpu'[c].pc = "cmd" /\ \A i \in CPU \ {c} : cpu'[i] = cpu[i]
  BY HandleFlow DEF Goes
<1>2. d \in Dev /\ d \in Key /\ cpu[c].caller \in PCB /\ cpu[c].caller # NULL
  BY <1>1 DEF WInv, Separate, Key, LocalsHold, Valid, Handlers, TypeOK, Locals
<1>3. cpu'[c].sem = d /\ InsertBlocked(d, cpu[c].caller) /\ dev' = dev
  BY <1>2, MoveFacts DEF DoIO, devs
<1>4. semq[d] \in Seq(PCB) /\ semq'[d] = Append(semq[d], cpu[c].caller)
      /\ \A e \in Dev \ {d} : semq'[e] = semq[e]
  BY <1>2, <1>3 DEF InsertBlocked, TypeOK, Key
<1>5. Asks(c, d) /\ Range(semq[d]) = {} /\ dev[d] = "idle"
  BY <1>1, <1>2 DEF Asks, WInv, Answered
<1>6. Range(semq'[d]) = {cpu[c].caller}
  BY <1>2, <1>4, <1>5, AppendToQueue
<1>7. \A e \in Dev \ {d} : \A i \in CPU :
         (Asks(i, e)' <=> Asks(i, e)) /\ (Commands(i, e)' <=> Commands(i, e))
  BY <1>1, <1>3 DEF Asks, Commands
<1>8. /\ \A i \in CPU \ {c} : ~Asks(i, d) /\ ~Commands(i, d)
  BY <1>2, <1>5 DEF WInv, Answered
<1>9. ASSUME NEW e \in Dev, e = d PROVE Answered(e)'
  <2>1. Commands(c, e)' /\ ~Asks(c, e)' /\ \A i \in CPU \ {c} : ~Asks(i, e)' /\ ~Commands(i, e)'
    BY <1>1, <1>3, <1>8, <1>9 DEF Asks, Commands
  <2>2. dev'[e] = "idle" /\ \A p, q \in Range(semq'[e]) : p = q
    BY <1>3, <1>5, <1>6, <1>9
  <2>. HIDE DEF d
  <2>. QED  BY <2>1, <2>2 DEF Answered
<1>10. ASSUME NEW e \in Dev, e # d PROVE Answered(e)'
  BY <1>3, <1>4, <1>7, <1>10 DEF WInv, Answered
<1>. QED  BY <1>9, <1>10

\* ... and then writes the command, for the device that is still idle.
LEMMA CommandAnswers ==
  ASSUME TypeOK, LocalsHold, WInv, NEW c \in CPU, Command(c)
  PROVE  \A d \in Dev : Answered(d)'
<1>. DEFINE d == cpu[c].sem
<1>1. /\ cpu[c].pc = "cmd" /\ cpu'[c].pc = "sched" /\ \A i \in CPU \ {c} : cpu'[i] = cpu[i]
  BY HandleFlow DEF Goes
<1>2. d \in Dev /\ semq' = semq
  BY <1>1 DEF WInv, Separate, Command, kernel, lists
<1>3. Commands(c, d) /\ dev[d] = "idle"
  BY <1>1, <1>2 DEF Commands, WInv, Answered
<1>4. dev'[d] = "busy" /\ \A e \in Dev \ {d} : dev'[e] = dev[e]
  BY <1>2, <1>3 DEF Command, TypeOK
<1>5. \A i \in CPU \ {c} : ~Asks(i, d) /\ ~Commands(i, d)
  BY <1>2, <1>3 DEF WInv, Answered
<1>6. ASSUME NEW e \in Dev, e = d PROVE Answered(e)'
  <2>1. \A i \in CPU : ~Asks(i, e)' /\ ~Commands(i, e)'
    BY <1>1, <1>5, <1>6 DEF Asks, Commands
  <2>2. dev'[e] # "idle" /\ \A p, q \in Range(semq'[e]) : p = q
    BY <1>2, <1>4, <1>6 DEF WInv, Answered
  <2>. HIDE DEF d
  <2>. QED  BY <2>1, <2>2 DEF Answered
<1>7. ASSUME NEW e \in Dev, e # d PROVE Answered(e)'
  <2>1. \A i \in CPU : (Asks(i, e)' <=> Asks(i, e)) /\ (Commands(i, e)' <=> Commands(i, e))
    BY <1>1, <1>7 DEF Asks, Commands
  <2>. QED  BY <1>2, <1>4, <1>7, <2>1 DEF WInv, Answered
<1>. QED  BY <1>6, <1>7
\* The other handlers have nothing to do with the devices.
LEMMA HandleAnswers ==
  ASSUME TypeOK, LocalsHold, InOneList, WInv, NEW c \in CPU, Handle(c)
  PROVE  \A d \in Dev : Answered(d)'
<1>k. Dev \subseteq Key /\ semq \in [Key -> Seq(PCB)] /\ \A k \in Key : IsInjective(semq[k])
  BY OneListFacts DEF Key
<1>1. CASE KillOne(c)
  <2>1. PICK p \in PCB : Detach(p)
    BY <1>1 DEF KillOne, Subtree, RemovePcb
  <2>2. \A d \in Dev : Range(semq'[d]) \subseteq Range(semq[d])
    BY <1>k, <2>1, DetachQueue
  <2>3. dev' = dev /\ \A i \in CPU : cpu'[i].pc = cpu[i].pc /\ cpu'[i].sem = cpu[i].sem
    BY <1>1, KillFlow DEF KillOne, devs
  <2>. QED  BY <2>2, <2>3, Undisturbed DEF Asks, Commands
<1>2. CASE Pass(c)
  <2>1. /\ cpu[c].pc = "pass" /\ cpu'[c].pc = "run" /\ dev' = dev
        /\ \A i \in CPU \ {c} : cpu'[i] = cpu[i]
    BY <1>2, HandleFlow DEF Goes, Pass, devs
  <2>2. cpu[c].sem \in Sem
    BY <2>1 DEF WInv, Separate
  <2>3. \A d \in Dev : semq'[d] = semq[d]
    BY <1>2, <1>k, <2>2, KeyAssumption DEF Pass, Release, Wake
  <2>. QED  BY <2>1, <2>3, Uninvolved
<1>3. CASE Block(c) \/ ClockWait(c)
  <2>1. /\ cpu[c].pc \in {"block", "clockwait"} /\ cpu'[c].pc = "save" /\ dev' = dev
        /\ \A i \in CPU \ {c} : cpu'[i] = cpu[i]
    BY <1>3, HandleFlow DEF Goes, Block, ClockWait, devs
  <2>2. \A d \in Dev : semq'[d] = semq[d]
    <3>1. cpu[c].pc = "block" => cpu[c].sem \in Sem
      BY DEF WInv, Separate
    <3>2. ASSUME NEW k \in Sem \cup {CLOCK}, NEW q, InsertBlocked(k, q)
          PROVE  \A d \in Dev : semq'[d] = semq[d]
      BY <1>k, <3>2, KeyAssumption DEF InsertBlocked
    <3>. QED  BY <1>3, <3>1, <3>2 DEF Block, ClockWait
  <2>. QED  BY <2>1, <2>2, Uninvolved
<1>4. CASE \/ Create(c) \/ CreateFails(c) \/ FirstTest(c) \/ SecondTest(c) \/ Save(c)
           \/ Clear(c) \/ Term(c) \/ TermPid(c) \/ SearchFaults(c) \/ EndKill(c)
  <2>1. /\ cpu[c].pc \notin {"doio", "cmd"} /\ cpu'[c].pc \notin {"doio", "cmd"}
        /\ \A i \in CPU \ {c} : cpu'[i] = cpu[i]
    BY <1>4, HandleFlow, KillFlow DEF Goes, Killing
  <2>2. UNCHANGED <<semq, dev>>
    BY <1>4 DEF Create, CreateFails, FirstTest, SecondTest, Save, Clear, Term, TermPid,
                SearchFaults, EndKill, kernel, lists, devs
  <2>. QED  BY <2>1, <2>2, Uninvolved
<1>. QED  BY <1>1, <1>2, <1>3, <1>4, DoIOAnswers, CommandAnswers DEF Handle

\* The interrupt handler makes the device idle and wakes the one process
\* that waits for it.
LEMMA ServeAnswers ==
  ASSUME TypeOK, LocalsHold, InOneList, WInv, NEW c \in CPU, ServeInterrupt(c)
  PROVE  \A d \in Dev : Answered(d)'
<1>1. /\ cpu[c].pc = "irq" /\ cpu'[c].pc \in {"sched", "run"}
      /\ \A i \in CPU \ {c} : cpu'[i] = cpu[i]
  BY InterruptFlow DEF Goes
<1>2. CASE cpu[c].sem = NoDev
  <2>. UNCHANGED <<dev, semq>>
    BY <1>2 DEF ServeInterrupt
  <2>. QED  BY <1>1, Uninvolved
<1>3. CASE cpu[c].sem # NoDev
  <2>1. PICK d \in Dev : d = cpu[c].sem
    BY <1>1, <1>3 DEF WInv, Separate
  <2>2. /\ Unblock(d) /\ dev'[d] \in {dev[d], "idle"}
        /\ \A e \in Dev \ {d} : dev'[e] = dev[e]
    BY <1>3, <2>1 DEF ServeInterrupt, TypeOK
  <2>3. d \in Key /\ semq \in [Key -> Seq(PCB)] /\ IsInjective(semq[d])
    BY OneListFacts DEF Key
  <2>4. Range(semq'[d]) = {} /\ \A e \in Dev \ {d} : semq'[e] = semq[e]
    <3>1. CASE semq[d] = <<>>
      BY <2>2, <3>1 DEF Unblock, Range
    <3>2. CASE semq[d] # <<>>
      <4>1. semq' = [semq EXCEPT ![d] = Tail(semq[d])]
        BY <2>2, <3>2 DEF Unblock, Wake
      <4>2. /\ Head(semq[d]) \in Range(semq[d])
            /\ Range(Tail(semq[d])) = Range(semq[d]) \ {Head(semq[d])}
        BY <2>3, <3>2, TailOfQueue
      <4>3. \A p, q \in Range(semq[d]) : p = q
        BY DEF WInv, Answered
      <4>4. Range(Tail(semq[d])) = {}
        BY <4>2, <4>3
      <4>. QED  BY <2>3, <4>1, <4>4 DEF Key
    <3>. QED  BY <3>1, <3>2
  <2>5. \A e \in Dev : \A i \in CPU : /\ Asks(i, e)' <=> Asks(i, e)
                                      /\ Commands(i, e)' <=> Commands(i, e)
    BY <1>1 DEF Asks, Commands
  <2>6. Answered(d)'
    <3>1. Answered(d)
      BY DEF WInv
    <3>2. \A i \in CPU : Asks(i, d) \/ Commands(i, d) => dev'[d] = "idle"
      BY <2>2, <3>1 DEF Answered
    <3>3. \A i, j \in CPU :
            (Asks(i, d)' \/ Commands(i, d)') /\ (Asks(j, d)' \/ Commands(j, d)') => i = j
      BY <2>5, <3>1 DEF Answered
    <3>. QED  BY <2>4, <2>5, <3>2, <3>3 DEF Answered
  <2>7. ASSUME NEW e \in Dev, e # d PROVE Answered(e)'
    BY <2>2, <2>4, <2>5, <2>7 DEF WInv, Answered
  <2>. QED  BY <2>6, <2>7
<1>. QED  BY <1>2, <1>3

LEMMA StepAnswers ==
  ASSUME "shareddevice" \notin Liberties, Inv, WInv, [Next]_vars PROVE WInv'
<1>. TypeOK /\ LocalsHold /\ InOneList
  BY DEF Inv
<1>k. Dev \subseteq Key /\ CLOCK \notin Dev /\ semq \in [Key -> Seq(PCB)]
  BY KeyAssumption, OneListFacts DEF Key
<1>1. CASE UNCHANGED vars
  BY <1>1 DEF vars, lists, devs, WInv, Answered, Separate, Asks, Commands
<1>2. ASSUME NEW d \in Dev, Complete(d) PROVE WInv'
  <2>1. /\ dev[d] = "busy" /\ dev'[d] = "done" /\ semq' = semq /\ cpu' = cpu
        /\ \A e \in Dev \ {d} : dev'[e] = dev[e]
    BY <1>2 DEF Complete, TypeOK, kernel, lists
  <2>2. ASSUME NEW e \in Dev PROVE Answered(e)'
    BY <2>1 DEF WInv, Answered, Asks, Commands
  <2>. QED  BY <2>1, <2>2 DEF WInv, Separate
<1>3. ASSUME NEW c \in CPU, Schedule(c) \/ Call(c) \/ Handle(c) \/ Interrupt(c)
      PROVE  WInv'
  <2>1. \A i \in CPU : Separate(i)'
    BY <1>3, StepSeparate DEF WInv
  <2>2. CASE Schedule(c)
    <3>1. /\ cpu[c].pc \in {"sched", "load"}
          /\ cpu'[c].pc \in {"load", "run", "idle", "halted"}
          /\ \A i \in CPU \ {c} : cpu'[i] = cpu[i]
      BY <2>2, ScheduleFlow DEF Schedule, Goes
    <3>2. UNCHANGED <<semq, dev>>
      BY <2>2 DEF Schedule, Dispatch, Load, Wait, Halt, kernel, lists, devs
    <3>. QED  BY <2>1, <3>1, <3>2, Uninvolved DEF WInv
  <2>3. CASE Interrupt(c) /\ ~ServeInterrupt(c)
    <3>1. /\ cpu[c].pc \in {"run", "idle", "trapped"}
          /\ cpu'[c].pc \in {"sched", "run", "trapped", "irq"}
          /\ \A i \in CPU \ {c} : cpu'[i] = cpu[i]
      BY <2>3, InterruptFlow DEF Interrupt, Goes
    <3>2. dev' = dev /\ \A d \in Dev : semq'[d] = semq[d]
      BY <1>k, <2>3 DEF Interrupt, TakeInterrupt, ReadBitmap, Preempt, Tick, kernel, lists, devs
    <3>. QED  BY <2>1, <3>1, <3>2, Uninvolved DEF WInv
  <2>. QED  BY <1>3, <2>1, <2>2, <2>3, CallAnswers, HandleAnswers, ServeAnswers DEF WInv
<1>. QED  BY <1>1, <1>2, <1>3 DEF Next, Runs, Stays

\* As long as a device has one user at a time, whoever waits for a device is
\* answered: the device works on the command or has executed it, or the CPU
\* that has queued the process is about to write it.  On any number of CPUs
\* and devices no interrupt, kill or late ACK gets in between.
THEOREM EveryWaiterIsServed ==
  ASSUME "shareddevice" \notin Liberties PROVE Spec => []WaiterIsServed
<1>1. Init => WInv
  <2>. SUFFICES ASSUME Init PROVE WInv
    OBVIOUS
  <2>1. \A c \in CPU : cpu[c].pc = "sched"
    BY DEF Init, Forget, Local
  <2>2. \A d \in Dev : Range(semq[d]) = {}
    BY DEF Init, Key, Range
  <2>. QED  BY <2>1, <2>2 DEF WInv, Answered, Separate, Asks, Commands
<1>2. Inv /\ WInv /\ [Next]_vars => WInv'
  BY StepAnswers
<1>3. Inv /\ WInv => RequestStands
  <2>. SUFFICES ASSUME Inv, WInv, NEW d \in Dev, semq[d] # <<>>, dev[d] = "idle"
                PROVE  \E c \in CPU : cpu[c].pc = "cmd" /\ cpu[c].sem = d
    BY DEF RequestStands, Inv, TypeOK
  <2>1. semq[d] \in Seq(PCB) /\ Head(semq[d]) \in Range(semq[d])
    BY OneListFacts, TailOfQueue DEF Inv, Key
  <2>. QED  BY <2>1 DEF WInv, Answered, Commands
<1>4. [Next]_vars /\ intact' => intact
  BY StaysIntact
<1>5. Spec => [](intact => Inv)
  BY NucleusInvariant
<1>. QED  BY <1>1, <1>2, <1>3, <1>4, <1>5, PTL DEF Spec, WaiterIsServed
=============================================================================
